---------------------------- MODULE Spec2Model ----------------------------
(***************************************************************************)
(* Model of the data-acquisition layer of oss_dashboard:                   *)
(*   - GitHubClient.graphql_paginate, the cursor-paginated query client    *)
(*     (src/oss_dashboard/github_client.py);                               *)
(*   - _fetch_all_contributors, the poller of the contributor statistics   *)
(*     (src/oss_dashboard/fetchers/repository.py).                         *)
(*   - the repository filter, the fetch steps that build the Report, and   *)
(*     run_pipeline and main that run them                                 *)
(*     (src/oss_dashboard/fetchers/*.py, src/oss_dashboard/main.py).       *)
(*   - load_excluded_repos and its cache, add_issue_metrics_data request   *)
(*     by request, _query_projects_for_repositories request by request     *)
(*     (fetchers/utils.py, fetchers/issues.py, fetchers/downloads_pepy.py).*)
(* Each component has a specification of its own; the variables of the     *)
(* other components stay at their initial values.                          *)
(***************************************************************************)
EXTENDS Integers, Sequences, FiniteSets, TLC

VARIABLES
    \* ---- graphql_paginate: the provider's page chain and one call's locals
    chain,           \* the provider's pages, in cursor order (raw results)
    pg_pc,           \* "idle" | "running" | "requesting" | "yielded" | "ended" | "raised"
    cursor,          \* local `cursor`
    has_next_page,   \* local `has_next_page`
    vars_with_cursor,\* the cursor of the request in flight
    sent,            \* cursors of the requests issued by the current call, in order
    outcomes,        \* how each request was answered:
                     \*   "page" | "ratelimit" | "error" | "nopath"
    yielded,         \* raw results yielded to the caller by the current call
    slept,           \* seconds slept by the current call
    calls,           \* number of calls of graphql_paginate so far
    \* ---- _fetch_all_contributors
    repos,              \* the units handed to the poller (repository names)
    fc_pc,              \* "initial" | "wait" | "retry" | "done" | "raised"
    idx,                \* position of the running for-loop
    contributors_map,   \* local `contributors_map`
    pending_repos,      \* local `pending_repos`
    still_pending,      \* local `still_pending`
    retries_remaining,  \* local `retries_remaining`
    polls,              \* per unit: number of requests issued for it
    last,               \* per unit: the last response rest_request returned for it
    first,              \* per unit: the response to its first request
    waited,             \* seconds slept by the poller
    \* ---- the repository filter applied to one node
    f_node,             \* the repository node under evaluation
    f_decision,         \* per site that evaluated it: TRUE iff the node is skipped
    \* ---- the run: configuration, fetch steps, run_pipeline, main
    run_config,         \* the Config of the run (`config`)
    excluded,           \* what load_excluded_repos returns (the cached tuple)
    provider,           \* what the providers may answer during the run: for
                        \* each kind of request, the set of possible answers
    fetchers,           \* run_pipeline's *fetchers, by name
    rp_pc,              \* "idle" | "running" | "returned" | "raised"
    step,               \* position of `for fetcher in fetchers`
    rp_result,          \* run_pipeline's local `result`
    trace,              \* the names of the fetchers invoked, in order
    call,               \* the last invocation of a fetcher: its name, the
                        \* Report it was given, what the providers answered
                        \* and what it did (returned a Report or raised)
    returned,           \* the values run_pipeline returned, in order
    main_pc,            \* "none" | "start" | "loop" | "pipeline" | "output"
                        \*   | "end" | "skipped" | "exit1" | "raised"
    env,                \* the process environment main reads
    yaml_config,        \* what load_config returns
    org_names,          \* main's config_organization_names
    org_i,              \* position of `for org_name in config_organization_names`
    files,              \* the report files written: org_name -> Report
    \* ---- load_excluded_repos and its lru_cache
    disk,               \* excluded_repos.json as it is on disk, per directory
    lru,                \* the entries of lru_cache(maxsize=1): (args, value)
    reads,              \* the directories whose file was read, in order
    first_set,          \* what the first call without argument returned
    \* ---- add_issue_metrics_data
    m_pc,               \* "idle" | "ages" | "response" | "done" | "raised"
    m_repositories,     \* result.repositories
    repo_names,         \* local `repo_names`
    m_i,                \* position of `for repo_name in repo_names`
    open_cursor,        \* locals of _fetch_issue_metrics_for_repo
    closed_cursor,
    open_has_next,
    closed_has_next,
    all_open_issues,
    all_closed_issues,
    age_requests,       \* the variables of the age requests of the repository
    m_log,              \* per repository: how each of its two queries ended
    \* ---- _query_projects_for_repositories
    p_pc,               \* "idle" | "for" | "while" | "fetch" | "done"
    p_repositories,     \* the argument `repositories`
    p_i,                \* position of `for repo in repositories`
    retries,            \* local `retries`
    num_requests,       \* local `num_requests`
    project_results,    \* local `project_results`
    repo_requests,      \* requests issued for the repository of the iteration
    since_sleep,        \* requests issued since the last sleep
    p_event,            \* what the last step did
    p_slept             \* seconds slept by the last step

PaginateVars ==
    <<chain, pg_pc, cursor, has_next_page, vars_with_cursor, sent, outcomes,
      yielded, slept, calls>>

PollerVars ==
    <<repos, fc_pc, idx, contributors_map, pending_repos, still_pending,
      retries_remaining, polls, last, first, waited>>

FilterVars ==
    <<f_node, f_decision>>

RunVars ==
    <<run_config, excluded, provider, fetchers, rp_pc, step, rp_result, trace,
      call, returned,
      main_pc, env, yaml_config, org_names, org_i, files>>

CacheVars ==
    <<disk, lru, reads, first_set>>

MetricsVars ==
    <<m_pc, m_repositories, repo_names, m_i, open_cursor, closed_cursor,
      open_has_next, closed_has_next, all_open_issues, all_closed_issues,
      age_requests, m_log>>

PepyVars ==
    <<p_pc, p_repositories, p_i, retries, num_requests, project_results,
      repo_requests, since_sleep, p_event, p_slept>>

StepVars ==
    <<CacheVars, MetricsVars, PepyVars>>

ReportVars ==
    <<FilterVars, RunVars, StepVars>>

vars ==
    <<PaginateVars, PollerVars, ReportVars>>

(***************************************************************************)
(* Python values                                                           *)
(***************************************************************************)

\* The empty dict {}.
EmptyDict ==
    [k \in {} |-> TRUE]

\* dict.get(key, default)
Get(d, key, default) ==
    IF key \in DOMAIN d THEN d[key] ELSE default

\* `None`: like the empty string it is falsy, and nothing else is read of it.
None ==
    <<>>

(***************************************************************************)
(* models.py: the Report and the configuration                             *)
(***************************************************************************)

\* RepositoryResult(): every field at its default. Ages are in milliseconds.
RepositoryResult ==
    [repository_name |-> "", repo_name_with_owner |-> "", license_name |-> "",
     topics |-> <<>>,
     projects_v2_count |-> 0, discussions_count |-> 0, forks_count |-> 0,
     total_issues_count |-> 0, open_issues_count |-> 0, closed_issues_count |-> 0,
     total_pull_requests_count |-> 0, open_pull_requests_count |-> 0,
     closed_pull_requests_count |-> 0, merged_pull_requests_count |-> 0,
     watchers_count |-> 0, stars_count |-> 0, collaborators_count |-> 0,
     total_download_count |-> 0, monthly_download_count |-> 0,
     weekly_download_count |-> 0, daily_download_count |-> 0,
     contributors_count |-> 0,
     conda_total_downloads |-> 0, conda_monthly_downloads |-> 0,
     discussions_enabled |-> FALSE, projects_enabled |-> FALSE,
     issues_enabled |-> FALSE,
     open_issues_average_age |-> 0, open_issues_median_age |-> 0,
     closed_issues_average_age |-> 0, closed_issues_median_age |-> 0,
     issues_response_average_age |-> 0, issues_response_median_age |-> 0]

\* OrgInfo()
OrgInfo ==
    [login |-> "", name |-> "", description |-> None, created_at |-> "",
     repositories_count |-> 0]

\* Meta()
Meta ==
    [created_at |-> ""]

\* Result(): the fresh, empty Report.
Result ==
    [meta |-> Meta, org_info |-> OrgInfo, repositories |-> EmptyDict]

\* Config(organization=..., include_forks=..., include_archived=..., since=...)
Config(organization, include_forks, include_archived, since) ==
    [organization |-> organization, include_forks |-> include_forks,
     include_archived |-> include_archived, since |-> since]

\* `None` as the value of a cursor.
NullCursor ==
    0

(***************************************************************************)
(* Bounds and program constants                                            *)
(***************************************************************************)

MaxPages ==
    3

MaxRateLimits ==
    2

MaxCalls ==
    2

RATE_LIMIT_SLEEP_SECONDS ==
    60

MaxContributors ==
    2

MaxReadyPolls ==
    2

MAX_CONTRIBUTOR_RETRIES ==
    20

CONTRIBUTOR_RETRY_SLEEP_SECONDS ==
    10

\* http.HTTPStatus
OK ==
    200

ACCEPTED ==
    202

INTERNAL_SERVER_ERROR ==
    500

(***************************************************************************)
(* The graph query provider: a chain of N pages. Page k carries the nodes  *)
(* of page k; its pageInfo has hasNextPage = (k < N) and endCursor = k.    *)
(* The last page may also omit hasNextPage, or the whole pageInfo.         *)
(***************************************************************************)

path_to_connection ==
    <<"organization", "repositories">>

LastShapes ==
    {"false", "absent", "nopageinfo"}

PageInfo(k, n, shape) ==
    IF k < n THEN [hasNextPage |-> TRUE, endCursor |-> k]
    ELSE IF shape = "false" THEN [hasNextPage |-> FALSE, endCursor |-> k]
    ELSE [endCursor |-> k]

Connection(k, n, shape) ==
    IF k = n /\ shape = "nopageinfo"
    THEN [nodes |-> k]
    ELSE [nodes |-> k, pageInfo |-> PageInfo(k, n, shape)]

RawResult(k, n, shape) ==
    [organization |-> [repositories |-> Connection(k, n, shape)]]

Chain(n, shape) ==
    [k \in 1..n |-> RawResult(k, n, shape)]

\* A result whose connection path is missing (organization is null).
NoPathResult ==
    [organization |-> EmptyDict]

\* What the provider answers to a request carrying cursor c: the page after c.
ProviderPage(c) ==
    IF c = NullCursor THEN chain[1]
    ELSE IF c < Len(chain) THEN chain[c + 1]
    ELSE RawResult(c + 1, c + 1, "false")

(***************************************************************************)
(* graphql_paginate                                                        *)
(***************************************************************************)

\* for key in path_to_connection: data = data[key]
RECURSIVE Navigate(_, _)
Navigate(data, path) ==
    IF path = <<>> THEN [ok |-> TRUE, data |-> data]
    ELSE IF Head(path) \in DOMAIN data THEN Navigate(data[Head(path)], Tail(path))
    ELSE [ok |-> FALSE, data |-> EmptyDict]

\* page_info = data.get("pageInfo", {})
page_info(result) ==
    Get(Navigate(result, path_to_connection).data, "pageInfo", EmptyDict)

\* Mutant: a missing hasNextPage counts as "more pages".
NextHasNextPageDefaultTrue(result) ==
    Get(page_info(result), "hasNextPage", TRUE)

\* has_next_page = page_info.get("hasNextPage", False)
NextHasNextPage(result) ==
    Get(page_info(result), "hasNextPage", FALSE)

\* Mutant: the cursor is never advanced.
NextCursorStale(result) ==
    NullCursor

\* cursor = page_info.get("endCursor")
NextCursor(result) ==
    Get(page_info(result), "endCursor", NullCursor)

\* Mutant: the cursor outlives the call (kept on the client object).
InitialCursorKept ==
    cursor

\* The locals a fresh call starts from.
InitialCursor ==
    NullCursor

\* A call of graphql_paginate: a new generator, nothing shared with earlier ones.
Call ==
    /\ pg_pc \in {"idle", "ended", "raised"}
    /\ calls < MaxCalls
    /\ calls' = calls + 1
    /\ cursor' = InitialCursor
    /\ has_next_page' = TRUE
    /\ vars_with_cursor' = NullCursor
    /\ sent' = <<>>
    /\ outcomes' = <<>>
    /\ yielded' = <<>>
    /\ slept' = 0
    /\ pg_pc' = "running"
    /\ UNCHANGED <<chain, PollerVars, ReportVars>>

\* while has_next_page: result = self.graphql(query, {**variables, "cursor": cursor})
SendRequest ==
    /\ pg_pc = "running"
    /\ has_next_page
    /\ Len(sent) < MaxPages + MaxRateLimits + 1
    /\ vars_with_cursor' = cursor
    /\ sent' = Append(sent, cursor)
    /\ pg_pc' = "requesting"
    /\ UNCHANGED <<chain, cursor, has_next_page, outcomes, yielded, slept, calls,
                   PollerVars, ReportVars>>

\* The provider answers with a result: navigate to the connection, yield the result.
Respond(result) ==
    /\ pg_pc = "requesting"
    /\ IF Navigate(result, path_to_connection).ok
       THEN /\ yielded' = Append(yielded, result)
            /\ outcomes' = Append(outcomes, "page")
            /\ pg_pc' = "yielded"
       ELSE /\ yielded' = yielded
            /\ outcomes' = Append(outcomes, "nopath")
            /\ pg_pc' = "raised"
    /\ UNCHANGED <<chain, cursor, has_next_page, vars_with_cursor, sent, slept,
                   calls, PollerVars, ReportVars>>

RespondPage ==
    Respond(ProviderPage(vars_with_cursor))

RespondNoPath ==
    Respond(NoPathResult)

\* Mutant: no `continue` after the sleep, so the previous result is processed
\* and yielded again (on the first request there is none, and the call raises).
RespondRateLimitNoContinue ==
    /\ pg_pc = "requesting"
    /\ slept < MaxRateLimits * RATE_LIMIT_SLEEP_SECONDS
    /\ slept' = slept + RATE_LIMIT_SLEEP_SECONDS
    /\ outcomes' = Append(outcomes, "ratelimit")
    /\ IF yielded = <<>>
       THEN yielded' = yielded /\ pg_pc' = "raised"
       ELSE yielded' = Append(yielded, yielded[Len(yielded)]) /\ pg_pc' = "yielded"
    /\ UNCHANGED <<chain, cursor, has_next_page, vars_with_cursor, sent, calls,
                   PollerVars, ReportVars>>

\* except RateLimitExceededException: time.sleep(RATE_LIMIT_SLEEP_SECONDS); continue
RespondRateLimit ==
    /\ pg_pc = "requesting"
    /\ slept < MaxRateLimits * RATE_LIMIT_SLEEP_SECONDS
    /\ slept' = slept + RATE_LIMIT_SLEEP_SECONDS
    /\ outcomes' = Append(outcomes, "ratelimit")
    /\ pg_pc' = "running"
    /\ UNCHANGED <<chain, cursor, has_next_page, vars_with_cursor, sent, yielded,
                   calls, PollerVars, ReportVars>>

\* Mutant: every exception is handled like the rate-limit signal.
RespondErrorRetried ==
    /\ pg_pc = "requesting"
    /\ slept < MaxRateLimits * RATE_LIMIT_SLEEP_SECONDS
    /\ slept' = slept + RATE_LIMIT_SLEEP_SECONDS
    /\ outcomes' = Append(outcomes, "error")
    /\ pg_pc' = "running"
    /\ UNCHANGED <<chain, cursor, has_next_page, vars_with_cursor, sent, yielded,
                   calls, PollerVars, ReportVars>>

\* Any other exception of self.graphql leaves the generator.
RespondError ==
    /\ pg_pc = "requesting"
    /\ outcomes' = Append(outcomes, "error")
    /\ pg_pc' = "raised"
    /\ UNCHANGED <<chain, cursor, has_next_page, vars_with_cursor, sent, yielded,
                   slept, calls, PollerVars, ReportVars>>

\* The caller asks for the next page: the generator resumes after the yield.
Resume ==
    /\ pg_pc = "yielded"
    /\ has_next_page' = NextHasNextPage(yielded[Len(yielded)])
    /\ cursor' = NextCursor(yielded[Len(yielded)])
    /\ pg_pc' = IF has_next_page' THEN "running" ELSE "ended"
    /\ UNCHANGED <<chain, vars_with_cursor, sent, outcomes, yielded, slept, calls,
                   PollerVars, ReportVars>>

FilterIdle ==
    /\ f_node = None
    /\ f_decision = EmptyDict

\* load_excluded_repos has not been called; there is no excluded_repos.json.
CacheIdle ==
    /\ disk = EmptyDict
    /\ lru = <<>>
    /\ reads = <<>>
    /\ first_set = None

\* add_issue_metrics_data is not running.
MetricsIdle ==
    /\ m_pc = "idle"
    /\ m_repositories = EmptyDict
    /\ repo_names = <<>>
    /\ m_i = 1
    /\ open_cursor = NullCursor
    /\ closed_cursor = NullCursor
    /\ open_has_next = TRUE
    /\ closed_has_next = TRUE
    /\ all_open_issues = <<>>
    /\ all_closed_issues = <<>>
    /\ age_requests = <<>>
    /\ m_log = EmptyDict

\* _query_projects_for_repositories is not running.
PepyIdle ==
    /\ p_pc = "idle"
    /\ p_repositories = <<>>
    /\ p_i = 0
    /\ retries = 0
    /\ num_requests = 0
    /\ project_results = <<>>
    /\ repo_requests = 0
    /\ since_sleep = 0
    /\ p_event = "none"
    /\ p_slept = 0

StepsIdle ==
    CacheIdle /\ MetricsIdle /\ PepyIdle

\* run_pipeline and main are not running.
PipelineIdle ==
    /\ provider = EmptyDict
    /\ fetchers = <<>>
    /\ rp_pc = "idle"
    /\ step = 1
    /\ rp_result = Result
    /\ trace = <<>>
    /\ call = None
    /\ returned = <<>>
    /\ main_pc = "none"
    /\ env = EmptyDict
    /\ yaml_config = EmptyDict
    /\ org_names = <<>>
    /\ org_i = 1
    /\ files = EmptyDict

\* Nothing of the run has started: no configuration is built and no
\* exclusion list is loaded.
RunIdle ==
    /\ run_config = Config("", FALSE, FALSE, "")
    /\ excluded = <<>>
    /\ PipelineIdle

PollerIdle ==
    /\ repos = <<>>
    /\ fc_pc = "done"
    /\ idx = 1
    /\ contributors_map = EmptyDict
    /\ pending_repos = <<>>
    /\ still_pending = <<>>
    /\ retries_remaining = 0
    /\ polls = EmptyDict
    /\ last = EmptyDict
    /\ first = EmptyDict
    /\ waited = 0

PaginateInit ==
    /\ \E n \in 1..MaxPages, shape \in LastShapes : chain = Chain(n, shape)
    /\ pg_pc = "idle"
    /\ cursor = NullCursor
    /\ has_next_page = TRUE
    /\ vars_with_cursor = NullCursor
    /\ sent = <<>>
    /\ outcomes = <<>>
    /\ yielded = <<>>
    /\ slept = 0
    /\ calls = 0
    /\ PollerIdle
    /\ FilterIdle
    /\ RunIdle
    /\ StepsIdle

PaginateNext ==
    \/ Call
    \/ SendRequest
    \/ RespondPage
    \/ RespondNoPath
    \/ RespondRateLimit
    \/ RespondError
    \/ Resume

PaginateSpec ==
    PaginateInit /\ [][PaginateNext]_vars

\* The caller iterates to exhaustion and the provider answers every request.
PaginateFairSpec ==
    PaginateSpec /\ WF_vars(PaginateNext)

(***************************************************************************)
(* The job-status REST provider and rest_request                           *)
(***************************************************************************)

\* The body of a ready answer: a JSON array with one object per contributor,
\* as text (a sequence of characters).
RECURSIVE JsonObjects(_)
JsonObjects(n) ==
    IF n = 0 THEN <<>>
    ELSE IF n = 1 THEN <<"{", "}">>
    ELSE JsonObjects(n - 1) \o <<",", "{", "}">>

ContributorsJson(n) ==
    <<"[">> \o JsonObjects(n) \o <<"]">>

EmptyObjectJson ==
    <<"{", "}">>

\* A body that is no JSON text (an HTML error page).
HtmlBody ==
    <<"<", "h", "t", "m", "l", ">">>

\* json.loads on the texts above: the length of the array (or object) the text
\* denotes, or a ValueError.
RECURSIVE ParseElements(_, _, _)
ParseElements(text, i, n) ==
    IF i > Len(text) THEN [ok |-> FALSE, len |-> 0]
    ELSE IF text[i] = "]"
         THEN IF i = Len(text) THEN [ok |-> TRUE, len |-> n]
              ELSE [ok |-> FALSE, len |-> 0]
    ELSE IF text[i] = "," /\ i + 2 <= Len(text)
            /\ text[i + 1] = "{" /\ text[i + 2] = "}"
         THEN ParseElements(text, i + 3, n + 1)
    ELSE [ok |-> FALSE, len |-> 0]

json_loads(text) ==
    IF text = <<"{", "}">> THEN [ok |-> TRUE, len |-> 0]
    ELSE IF Len(text) >= 2 /\ text[1] = "["
         THEN IF text[2] = "]" THEN ParseElements(text, 2, 0)
              ELSE IF Len(text) >= 3 /\ text[2] = "{" /\ text[3] = "}"
                   THEN ParseElements(text, 4, 1)
                   ELSE [ok |-> FALSE, len |-> 0]
    ELSE [ok |-> FALSE, len |-> 0]

\* What requestJson can do: answer with a status and a body, or raise a
\* GithubException.
ProviderOutcomes ==
    {[exc |-> FALSE, status |-> OK, data |-> ContributorsJson(n)] :
         n \in 0..MaxContributors}
    \cup {[exc |-> FALSE, status |-> ACCEPTED, data |-> EmptyObjectJson]}
    \cup {[exc |-> FALSE, status |-> st, data |-> EmptyObjectJson] : st \in {404, 429}}
    \cup {[exc |-> FALSE, status |-> st, data |-> HtmlBody] :
         st \in {OK, INTERNAL_SERVER_ERROR}}
    \cup {[exc |-> TRUE, status |-> 0, data |-> None]}

\* GitHubClient.rest_request
rest_request(outcome) ==
    IF outcome.exc
    THEN [status |-> INTERNAL_SERVER_ERROR, data |-> None]
    ELSE [status |-> outcome.status, data |-> outcome.data]

\* The request numbers at which the provider may stop answering "pending" for
\* a unit: one of the first polls, or the very last one the poller makes.
ReadyPolls ==
    (1..(MaxReadyPolls + 1)) \cup {MAX_CONTRIBUTOR_RETRIES + 1}

MayAnswer(repo_name, outcome) ==
    \/ ~outcome.exc /\ outcome.status = ACCEPTED /\ outcome.data = EmptyObjectJson
    \/ polls[repo_name] + 1 \in ReadyPolls

(***************************************************************************)
(* _fetch_all_contributors                                                 *)
(***************************************************************************)

NoResponse ==
    [status |-> 0, data |-> None]

Put(map, key, value) ==
    [k \in DOMAIN map \cup {key} |-> IF k = key THEN value ELSE map[k]]

\* What the first loop reads of a response: data_dict = json.loads(data) if
\* data else None; a body that does not parse raises.
InitialParse(data) ==
    IF data = None THEN [ok |-> TRUE, len |-> 0] ELSE json_loads(data)

\* len(data_dict) in the first loop.
InitialCount(data) ==
    InitialParse(data).len

\* len(data) in the retry loop.
RetryCount(data) ==
    Len(data)

\* One iteration of `for repo in repos` (lines 32-46).
InitialRequest(outcome) ==
    /\ fc_pc = "initial"
    /\ idx <= Len(repos)
    /\ MayAnswer(repos[idx], outcome)
    /\ LET repo_name == repos[idx]
           resp == rest_request(outcome)
           status == resp.status
           data == resp.data
       IN /\ polls' = [polls EXCEPT ![repo_name] = @ + 1]
          /\ last' = [last EXCEPT ![repo_name] = resp]
          /\ first' = [first EXCEPT ![repo_name] = resp]
          /\ IF ~InitialParse(data).ok
             THEN /\ fc_pc' = "raised"
                  /\ UNCHANGED <<idx, contributors_map, pending_repos>>
             ELSE /\ fc_pc' = fc_pc
                  /\ idx' = idx + 1
                  /\ IF status = OK /\ InitialCount(data) > 0
                     THEN /\ contributors_map' =
                                Put(contributors_map, repo_name, InitialCount(data))
                          /\ pending_repos' = pending_repos
                     ELSE IF status = ACCEPTED
                     THEN /\ pending_repos' = Append(pending_repos, repo_name)
                          /\ contributors_map' = contributors_map
                     ELSE /\ contributors_map' = Put(contributors_map, repo_name, 0)
                          /\ pending_repos' = pending_repos
    /\ UNCHANGED <<repos, still_pending, retries_remaining, waited, PaginateVars, ReportVars>>

\* retries_remaining = MAX_CONTRIBUTOR_RETRIES (line 48), after the first loop.
StartRetries ==
    /\ fc_pc = "initial"
    /\ idx > Len(repos)
    /\ retries_remaining' = MAX_CONTRIBUTOR_RETRIES
    /\ fc_pc' = "wait"
    /\ UNCHANGED <<repos, idx, contributors_map, pending_repos, still_pending,
                   polls, last, first, waited, PaginateVars, ReportVars>>

\* Mutant: the loop ignores the retry budget.
MoreRetriesNoBudget ==
    pending_repos # <<>>

\* while pending_repos and retries_remaining > 0
MoreRetries ==
    pending_repos # <<>> /\ retries_remaining > 0

\* Mutant: one sleep per pending unit instead of one per round.
SleepPerUnit ==
    /\ fc_pc = "wait"
    /\ MoreRetries
    /\ waited' = waited + CONTRIBUTOR_RETRY_SLEEP_SECONDS * Len(pending_repos)
    /\ still_pending' = <<>>
    /\ idx' = 1
    /\ fc_pc' = "retry"
    /\ UNCHANGED <<repos, contributors_map, pending_repos, retries_remaining,
                   polls, last, first, PaginateVars, ReportVars>>

\* time.sleep(CONTRIBUTOR_RETRY_SLEEP_SECONDS); still_pending = [] (lines 50-58)
Sleep ==
    /\ fc_pc = "wait"
    /\ MoreRetries
    /\ waited' = waited + CONTRIBUTOR_RETRY_SLEEP_SECONDS
    /\ still_pending' = <<>>
    /\ idx' = 1
    /\ fc_pc' = "retry"
    /\ UNCHANGED <<repos, contributors_map, pending_repos, retries_remaining,
                   polls, last, first, PaginateVars, ReportVars>>

\* Mutant: a unit that got its answer stays in the batch of the next round.
RetryRequestKeepingResolved(outcome) ==
    /\ fc_pc = "retry"
    /\ idx <= Len(pending_repos)
    /\ MayAnswer(pending_repos[idx], outcome)
    /\ LET repo_name == pending_repos[idx]
           resp == rest_request(outcome)
           status == resp.status
           data == resp.data
       IN /\ polls' = [polls EXCEPT ![repo_name] = @ + 1]
          /\ last' = [last EXCEPT ![repo_name] = resp]
          /\ IF status = OK /\ data # None
             THEN /\ contributors_map' =
                        Put(contributors_map, repo_name, RetryCount(data))
                  /\ still_pending' = Append(still_pending, repo_name)
             ELSE IF status = ACCEPTED
             THEN /\ still_pending' = Append(still_pending, repo_name)
                  /\ contributors_map' = contributors_map
             ELSE /\ contributors_map' = Put(contributors_map, repo_name, 0)
                  /\ still_pending' = still_pending
          /\ IF idx = Len(pending_repos)
             THEN /\ pending_repos' = still_pending'
                  /\ retries_remaining' = retries_remaining - 1
                  /\ idx' = 1
                  /\ fc_pc' = "wait"
             ELSE /\ idx' = idx + 1
                  /\ UNCHANGED <<pending_repos, retries_remaining, fc_pc>>
    /\ UNCHANGED <<repos, first, waited, PaginateVars, ReportVars>>

\* One iteration of `for repo_name in pending_repos` (lines 59-69); after the
\* last one, pending_repos = still_pending and retries_remaining -= 1.
RetryRequest(outcome) ==
    /\ fc_pc = "retry"
    /\ idx <= Len(pending_repos)
    /\ MayAnswer(pending_repos[idx], outcome)
    /\ LET repo_name == pending_repos[idx]
           resp == rest_request(outcome)
           status == resp.status
           data == resp.data
       IN /\ polls' = [polls EXCEPT ![repo_name] = @ + 1]
          /\ last' = [last EXCEPT ![repo_name] = resp]
          /\ IF status = OK /\ data # None
             THEN /\ contributors_map' =
                        Put(contributors_map, repo_name, RetryCount(data))
                  /\ still_pending' = still_pending
             ELSE IF status = ACCEPTED
             THEN /\ still_pending' = Append(still_pending, repo_name)
                  /\ contributors_map' = contributors_map
             ELSE /\ contributors_map' = Put(contributors_map, repo_name, 0)
                  /\ still_pending' = still_pending
          /\ IF idx = Len(pending_repos)
             THEN /\ pending_repos' = still_pending'
                  /\ retries_remaining' = retries_remaining - 1
                  /\ idx' = 1
                  /\ fc_pc' = "wait"
             ELSE /\ idx' = idx + 1
                  /\ UNCHANGED <<pending_repos, retries_remaining, fc_pc>>
    /\ UNCHANGED <<repos, first, waited, PaginateVars, ReportVars>>

\* Mutant: the units still pending at the end get no entry.
TimeOutDropped(map, names) ==
    map

\* for repo_name in pending_repos: contributors_map[repo_name] = 0; return
\* (lines 74-78)
RECURSIVE TimeOut(_, _)
TimeOut(map, names) ==
    IF names = <<>> THEN map
    ELSE TimeOut(Put(map, Head(names), 0), Tail(names))

\* Mutant: the poller returns while units are pending and budget is left.
FinishEarly ==
    /\ fc_pc = "wait"
    /\ contributors_map' = TimeOut(contributors_map, pending_repos)
    /\ fc_pc' = "done"
    /\ UNCHANGED <<repos, idx, pending_repos, still_pending, retries_remaining,
                   polls, last, first, waited, PaginateVars, ReportVars>>

\* The loop is left (line 50), the timed-out units are defaulted and the
\* mapping is returned (lines 74-78).
Finish ==
    /\ fc_pc = "wait"
    /\ ~MoreRetries
    /\ contributors_map' = TimeOut(contributors_map, pending_repos)
    /\ fc_pc' = "done"
    /\ UNCHANGED <<repos, idx, pending_repos, still_pending, retries_remaining,
                   polls, last, first, waited, PaginateVars, ReportVars>>

PaginateIdle ==
    /\ chain = Chain(1, "false")
    /\ pg_pc = "idle"
    /\ cursor = NullCursor
    /\ has_next_page = TRUE
    /\ vars_with_cursor = NullCursor
    /\ sent = <<>>
    /\ outcomes = <<>>
    /\ yielded = <<>>
    /\ slept = 0
    /\ calls = 0

\* The units handed to the poller: the first n of three repositories.
Units ==
    <<1, 2, 3>>

RepoLists ==
    {SubSeq(Units, 1, n) : n \in 0..Len(Units)}

PollerInit ==
    /\ repos \in RepoLists
    /\ fc_pc = "initial"
    /\ idx = 1
    /\ contributors_map = EmptyDict
    /\ pending_repos = <<>>
    /\ still_pending = <<>>
    /\ retries_remaining = 0
    /\ polls = [i \in DOMAIN repos |-> 0]
    /\ last = [i \in DOMAIN repos |-> NoResponse]
    /\ first = [i \in DOMAIN repos |-> NoResponse]
    /\ waited = 0
    /\ PaginateIdle
    /\ FilterIdle
    /\ RunIdle
    /\ StepsIdle

PollerNext ==
    \/ \E outcome \in ProviderOutcomes : InitialRequest(outcome)
    \/ StartRetries
    \/ Sleep
    \/ \E outcome \in ProviderOutcomes : RetryRequest(outcome)
    \/ Finish

PollerSpec ==
    PollerInit /\ [][PollerNext]_vars

\* The poller runs on and the provider answers every request.
PollerFairSpec ==
    PollerSpec /\ WF_vars(PollerNext)

(***************************************************************************)
(* Properties of graphql_paginate                                          *)
(***************************************************************************)

Occurrences(seq, x) ==
    Cardinality({i \in DOMAIN seq : seq[i] = x})

\* The pagination metadata as the provider sent it, read off the raw result.
SaysHasNextPage(result) ==
    LET conn == result.organization.repositories IN
    /\ "pageInfo" \in DOMAIN conn
    /\ "hasNextPage" \in DOMAIN conn.pageInfo
    /\ conn.pageInfo.hasNextPage = TRUE

OnlyPages ==
    \A i \in DOMAIN outcomes : outcomes[i] = "page"

\* C1 Pagination completeness: while the provider answers every request of a
\* call with a page, the pages yielded are the provider's pages 1, 2, ... in
\* order, the first request of every call carries the null cursor, request
\* k+1 carries the endCursor that came with page k, no more requests are
\* issued than the chain has pages, and the stream ends after exactly N pages.
C1_PaginationCompleteness ==
    OnlyPages =>
        /\ Len(sent) >= 1 => sent[1] = NullCursor
        /\ Len(yielded) <= Len(chain)
        /\ \A i \in DOMAIN yielded : yielded[i] = chain[i]
        /\ \A i \in DOMAIN sent :
               i > 1 => sent[i] = chain[i - 1].organization.repositories.pageInfo.endCursor
        /\ Len(sent) <= Len(chain)
        /\ pg_pc = "ended" => yielded = chain /\ Len(sent) = Len(chain)

\* A second call, after an earlier one, has run through a chain of MaxPages pages.
C1_Witness ==
    /\ pg_pc = "ended"
    /\ OnlyPages
    /\ calls = MaxCalls
    /\ Len(chain) = MaxPages
    /\ Len(yielded) = MaxPages

\* C2 Rate-limit retry: every rate-limit signal yields nothing and costs one
\* cooldown, the request after it carries the same cursor, and the pages the
\* caller has received are a prefix of the provider's chain, the whole chain
\* once the stream has ended: what a run without rate-limit signals yields.
C2_RateLimitRetry ==
    /\ Len(yielded) = Occurrences(outcomes, "page")
    /\ slept = Occurrences(outcomes, "ratelimit") * RATE_LIMIT_SLEEP_SECONDS
    /\ \A i \in DOMAIN outcomes :
           outcomes[i] = "ratelimit" /\ i < Len(sent) => sent[i + 1] = sent[i]
    /\ \A i \in DOMAIN outcomes :
           outcomes[i] = "ratelimit" /\ i = Len(sent) => cursor = sent[i]
    /\ yielded = SubSeq(chain, 1, Len(yielded))
    /\ pg_pc = "ended" => yielded = chain

\* A stream that ended after MaxRateLimits signals, one of them past page one.
C2_Witness ==
    /\ pg_pc = "ended"
    /\ Len(chain) >= 2
    /\ Occurrences(outcomes, "ratelimit") = MaxRateLimits
    /\ \E i \in DOMAIN outcomes : i > 1 /\ outcomes[i] = "ratelimit"
    /\ outcomes[1] = "ratelimit"

\* C3 Stream end: once the generator has resumed after a page whose metadata
\* says no next page (hasNextPage false or missing, or no pageInfo), the stream
\* has ended and no request follows; every page before the last yielded one
\* said hasNextPage true, so the stream never ends after such a page.
C3_StreamEnd ==
    /\ \A i \in DOMAIN yielded : i < Len(yielded) => SaysHasNextPage(yielded[i])
    /\ (yielded # <<>> /\ ~SaysHasNextPage(yielded[Len(yielded)]))
           => /\ pg_pc \in {"yielded", "ended"}
              /\ Len(sent) = Len(outcomes)
    /\ pg_pc = "ended" => yielded # <<>> /\ ~SaysHasNextPage(yielded[Len(yielded)])

\* The stream ended after a last page that carries no pageInfo at all.
C3_Witness ==
    /\ pg_pc = "ended"
    /\ Len(yielded) >= 2
    /\ "pageInfo" \notin DOMAIN yielded[Len(yielded)].organization.repositories

\* C4 Other errors are not retried: a request that fails with anything but the
\* rate-limit signal is the last request of the call, its cursor was requested
\* once apart from rate-limited attempts, it adds no sleep and no page, and the
\* call ends raised.
C4_ErrorsNotRetried ==
    \A i \in DOMAIN outcomes :
        outcomes[i] \in {"error", "nopath"} =>
            /\ pg_pc = "raised"
            /\ i = Len(outcomes)
            /\ i = Len(sent)
            /\ Cardinality({j \in DOMAIN outcomes :
                   sent[j] = sent[i] /\ outcomes[j] # "ratelimit"}) = 1
            /\ slept = Occurrences(outcomes, "ratelimit") * RATE_LIMIT_SLEEP_SECONDS
            /\ Len(yielded) = Occurrences(outcomes, "page")

\* A request failed after a page had been yielded and a rate limit slept out.
C4_Witness ==
    /\ pg_pc = "raised"
    /\ outcomes # <<>>
    /\ outcomes[Len(outcomes)] = "error"
    /\ Len(yielded) >= 1
    /\ slept > 0

InSeq(x, seq) ==
    \E i \in DOMAIN seq : seq[i] = x

Requested ==
    {u \in DOMAIN polls : polls[u] >= 1}

IsContributorsJson(data) ==
    \E n \in 0..MaxContributors : data = ContributorsJson(n)

\* The number of contributors a ready payload carries.
PayloadContributors(data) ==
    CHOOSE n \in 0..MaxContributors : data = ContributorsJson(n)

ReadyWith(resp) ==
    resp.status = OK /\ IsContributorsJson(resp.data)

ResolvedTo(u, n) ==
    u \in DOMAIN contributors_map /\ contributors_map[u] = n

\* C6 Poller first-request transitions: the first request moves a unit to the
\* number of contributors of its payload (status 200 with data), to pending
\* (status 202), or at once to 0 (status 404, 429 or 500), and a unit resolved
\* by its first request is not requested again.
C6_FirstRequestTransitions ==
    \A u \in Requested :
        /\ ReadyWith(first[u]) =>
               ResolvedTo(u, PayloadContributors(first[u].data)) /\ polls[u] = 1
        /\ (first[u].status = ACCEPTED /\ polls[u] = 1) =>
               InSeq(u, pending_repos) /\ u \notin DOMAIN contributors_map
        /\ first[u].status \in {404, 429, INTERNAL_SERVER_ERROR} =>
               ResolvedTo(u, 0) /\ polls[u] = 1

\* The same transitions for the first responses whose body is empty or JSON
\* text: these the first loop handles as C6 says.
C6_ParseableFirstResponse ==
    \A u \in Requested :
        InitialParse(first[u].data).ok =>
            /\ ReadyWith(first[u]) =>
                   ResolvedTo(u, PayloadContributors(first[u].data)) /\ polls[u] = 1
            /\ (first[u].status = ACCEPTED /\ polls[u] = 1) =>
                   InSeq(u, pending_repos) /\ u \notin DOMAIN contributors_map
            /\ first[u].status \notin {OK, ACCEPTED} =>
                   ResolvedTo(u, 0) /\ polls[u] = 1

\* C7 Poller convergence to the same value: a unit whose ready answer comes
\* after k pending answers (0 <= k <= MAX_CONTRIBUTOR_RETRIES) is resolved to
\* the number of contributors of the ready payload, the value it gets when it
\* is ready on the first request.
C7_SameValueAfterRetries ==
    \A u \in Requested :
        (ReadyWith(last[u]) /\ polls[u] <= MAX_CONTRIBUTOR_RETRIES + 1) =>
            ResolvedTo(u, PayloadContributors(last[u].data))

\* The value a unit gets when its ready answer is the first one.
C7_ReadyAtOnce ==
    \A u \in Requested :
        (ReadyWith(last[u]) /\ polls[u] = 1) =>
            ResolvedTo(u, PayloadContributors(last[u].data))

\* A unit that answered pending on the first request and on every retry round.
TimedOut(u) ==
    polls[u] = MAX_CONTRIBUTOR_RETRIES + 1 /\ last[u].status = ACCEPTED

\* C8 Poller timeout: once a unit has answered pending on the first request
\* and on all MAX_CONTRIBUTOR_RETRIES retry rounds, the poller has not raised,
\* sleeps and polls no further (the budget is used up), and returns 0 for it.
C8_TimeoutDefaultsToZero ==
    \A u \in Requested :
        TimedOut(u) =>
            /\ fc_pc \in {"retry", "wait", "done"}
            /\ fc_pc \in {"wait", "done"} => retries_remaining = 0 /\ ~MoreRetries
            /\ fc_pc = "retry" => retries_remaining = 1
            /\ waited = MAX_CONTRIBUTOR_RETRIES * CONTRIBUTOR_RETRY_SLEEP_SECONDS
            /\ fc_pc = "done" => ResolvedTo(u, 0)

\* The poller returned with one unit timed out and another resolved to a count.
C8_Witness ==
    /\ fc_pc = "done"
    /\ \E u \in Requested : TimedOut(u) /\ ResolvedTo(u, 0)
    /\ \E u \in Requested : ReadyWith(last[u]) /\ contributors_map[u] > 0

\* The batch of C9: one unit ready at once, one ready after two pending
\* answers, one pending throughout.
BatchOfThree ==
    /\ Len(repos) = 3
    /\ \E a, b, c \in Requested :
           /\ polls[a] = 1 /\ ReadyWith(last[a])
           /\ polls[b] = 3 /\ ReadyWith(last[b])
           /\ TimedOut(c)

\* C9 as the spec states it: the batch of three waits 2 x retry_interval.
C9_BatchWaitsTwoIntervals ==
    (fc_pc = "done" /\ BatchOfThree) =>
        waited = 2 * CONTRIBUTOR_RETRY_SLEEP_SECONDS

\* C9 Poller batch wait (amended): for the batch of three the poller sleeps
\* once per retry round for the whole batch, MAX_CONTRIBUTOR_RETRIES times in
\* all, because the permanently pending unit uses up the budget.
C9_BatchWaitsWholeBudget ==
    (fc_pc = "done" /\ BatchOfThree) =>
        waited = MAX_CONTRIBUTOR_RETRIES * CONTRIBUTOR_RETRY_SLEEP_SECONDS

\* The poller returned for the batch of three.
C9_Witness ==
    fc_pc = "done" /\ BatchOfThree

\* C10 Poller bounded cost: the poller always terminates (returns or raises),
\* it sleeps at most MAX_CONTRIBUTOR_RETRIES times in total and requests each
\* unit at most 1 + MAX_CONTRIBUTOR_RETRIES times.
C10_BoundedCost ==
    /\ [](/\ waited <= MAX_CONTRIBUTOR_RETRIES * CONTRIBUTOR_RETRY_SLEEP_SECONDS
          /\ \A u \in DOMAIN polls : polls[u] <= 1 + MAX_CONTRIBUTOR_RETRIES)
    /\ <>(fc_pc \in {"done", "raised"})

\* The poller returned after using the whole budget on two pending units.
C10_Witness ==
    /\ fc_pc = "done"
    /\ waited = MAX_CONTRIBUTOR_RETRIES * CONTRIBUTOR_RETRY_SLEEP_SECONDS
    /\ Cardinality({u \in Requested : polls[u] = 1 + MAX_CONTRIBUTOR_RETRIES}) >= 2

\* The units the caller supplied.
Supplied ==
    {repos[i] : i \in DOMAIN repos}

\* C11 Poller result is complete: when the poller returns, the mapping has
\* one integer entry for every supplied unit and for no other name, and every
\* unit either got an answer other than pending or was polled until the retry
\* budget was used up; before that nothing is returned.
C11_PollerResultComplete ==
    fc_pc = "done" =>
        /\ DOMAIN contributors_map = Supplied
        /\ \A u \in Supplied : contributors_map[u] \in Nat
        /\ pending_repos = <<>> \/ retries_remaining = 0
        /\ \A u \in Supplied :
               /\ polls[u] >= 1
               /\ last[u].status # ACCEPTED \/ TimedOut(u)

\* The poller returned for three units: one resolved at once, one resolved
\* after a pending answer, one timed out.
C11_Witness ==
    /\ fc_pc = "done"
    /\ Len(repos) = 3
    /\ \E a, b, c \in Supplied :
           /\ polls[a] = 1
           /\ polls[b] = 2 /\ last[b].status # ACCEPTED
           /\ TimedOut(c)

(***************************************************************************)
(* The repositories the provider lists, the configurations and the         *)
(* exclusion lists                                                         *)
(***************************************************************************)

\* A node with every attribute the discovery query asks for.
RepoA ==
    [name |-> "a", nameWithOwner |-> "org/a", forkCount |-> 1,
     stargazerCount |-> 5, isFork |-> FALSE, isArchived |-> FALSE,
     hasIssuesEnabled |-> TRUE, hasProjectsEnabled |-> FALSE,
     hasDiscussionsEnabled |-> TRUE,
     projectsV2 |-> [totalCount |-> 1], discussions |-> [totalCount |-> 3],
     licenseInfo |-> [name |-> "MIT"], watchers |-> [totalCount |-> 2],
     repositoryTopics |-> [nodes |-> <<[topic |-> [name |-> "python"]], None>>]]

\* A node with a null license and no topics.
RepoC ==
    [name |-> "c", nameWithOwner |-> "org/c", isFork |-> FALSE,
     isArchived |-> FALSE, licenseInfo |-> None,
     repositoryTopics |-> [nodes |-> <<>>]]

RepoOld ==
    [name |-> "old", isFork |-> FALSE, isArchived |-> TRUE]

\* A fork; the node carries no isArchived.
RepoForked ==
    [name |-> "forked", isFork |-> TRUE]

RepoOldFork ==
    [name |-> "oldfork", isFork |-> TRUE, isArchived |-> TRUE]

\* The name the exclusion list may hold.
RepoListed ==
    [name |-> "b-excluded", isFork |-> FALSE, isArchived |-> FALSE]

\* Names around the excluded prefixes: a prefix itself, a longer name, an
\* archived repository named as a prefix, and a name one character short.
RepoSlidesPrefix ==
    [name |-> "slides-", isFork |-> FALSE, isArchived |-> FALSE]

RepoCourseIntro ==
    [name |-> "course-intro", isFork |-> TRUE, isArchived |-> FALSE]

RepoCoursePrefix ==
    [name |-> "course-", isFork |-> FALSE, isArchived |-> TRUE]

RepoSlides ==
    [name |-> "slides", isFork |-> FALSE, isArchived |-> FALSE]

RepositoryNodes ==
    {RepoA, RepoC, RepoOld, RepoForked, RepoOldFork, RepoListed,
     RepoSlidesPrefix, RepoCourseIntro, RepoCoursePrefix, RepoSlides}

Organizations ==
    {"brainglobe", "org"}

\* `since`, as main computes it.
Since ==
    "2025-01-01T00:00:00"

Configs ==
    {Config(o, f, a, Since) : o \in Organizations, f \in BOOLEAN, a \in BOOLEAN}

\* The contents of excluded_repos.json as a tuple; () when there is no file.
ExclusionSets ==
    {<<>>, <<"b-excluded">>}

(***************************************************************************)
(* fetchers/utils.py: the filter                                           *)
(***************************************************************************)

EXCLUDED_REPO_PREFIXES ==
    <<"slides-", "course-">>

\* The cached tuple of excluded names.
load_excluded_repos ==
    excluded

\* str.startswith(prefix)
startswith(s, prefix) ==
    Len(s) >= Len(prefix) /\ SubSeq(s, 1, Len(prefix)) = prefix

\* Mutant: a name that is exactly the prefix does not start with it.
startswith_any_longer(s, prefixes) ==
    \E i \in DOMAIN prefixes :
        Len(s) > Len(prefixes[i]) /\ startswith(s, prefixes[i])

\* str.startswith(tuple of prefixes)
startswith_any(s, prefixes) ==
    \E i \in DOMAIN prefixes : startswith(s, prefixes[i])

should_exclude_repo(repo_name, config) ==
    \/ \E i \in DOMAIN load_excluded_repos : load_excluded_repos[i] = repo_name
    \/ startswith_any(repo_name, EXCLUDED_REPO_PREFIXES)

\* The filter of add_repositories_to_result (repository.py:145-158): TRUE iff the
\* node is skipped.
SkippedAtDiscovery(repo, config) ==
    IF repo = None THEN TRUE
    ELSE LET is_archived == Get(repo, "isArchived", FALSE)
             is_fork == Get(repo, "isFork", FALSE)
         IN IF is_archived /\ ~config.include_archived THEN TRUE
            ELSE IF is_fork /\ ~config.include_forks THEN TRUE
            ELSE should_exclude_repo(repo.name, config)

\* Mutant: query_repo_names forgets the fork rule.
SkippedAtQueryRepoNamesNoForkRule(repo, config) ==
    IF repo = None THEN TRUE
    ELSE LET is_archived == Get(repo, "isArchived", FALSE)
         IN IF is_archived /\ ~config.include_archived THEN TRUE
            ELSE should_exclude_repo(repo.name, config)

\* The filter of query_repo_names (utils.py:88-103).
SkippedAtQueryRepoNames(repo, config) ==
    IF repo = None THEN TRUE
    ELSE LET is_archived == Get(repo, "isArchived", FALSE)
             is_fork == Get(repo, "isFork", FALSE)
         IN IF is_archived /\ ~config.include_archived THEN TRUE
            ELSE IF is_fork /\ ~config.include_forks THEN TRUE
            ELSE should_exclude_repo(repo.name, config)

\* The filter of add_issue_and_pr_data (issues.py:74, 94-97): the query does
\* not ask for the flags and the step does not read them.
SkippedAtIssues(repo, config) ==
    IF repo = None THEN TRUE
    ELSE should_exclude_repo(repo.name, config)

\* The filter of add_discussion_data (discussions.py:49, 69-72).
SkippedAtDiscussions(repo, config) ==
    IF repo = None THEN TRUE
    ELSE should_exclude_repo(repo.name, config)

\* One repository node is put through the filter of each site.
FilterAtDiscovery ==
    /\ "add_repositories_to_result" \notin DOMAIN f_decision
    /\ f_decision' = Put(f_decision, "add_repositories_to_result",
                         SkippedAtDiscovery(f_node, run_config))
    /\ UNCHANGED <<f_node, RunVars, PaginateVars, PollerVars, StepVars>>

FilterAtQueryRepoNames ==
    /\ "query_repo_names" \notin DOMAIN f_decision
    /\ f_decision' = Put(f_decision, "query_repo_names",
                         SkippedAtQueryRepoNames(f_node, run_config))
    /\ UNCHANGED <<f_node, RunVars, PaginateVars, PollerVars, StepVars>>

FilterAtIssues ==
    /\ "add_issue_and_pr_data" \notin DOMAIN f_decision
    /\ f_decision' = Put(f_decision, "add_issue_and_pr_data",
                         SkippedAtIssues(f_node, run_config))
    /\ UNCHANGED <<f_node, RunVars, PaginateVars, PollerVars, StepVars>>

FilterAtDiscussions ==
    /\ "add_discussion_data" \notin DOMAIN f_decision
    /\ f_decision' = Put(f_decision, "add_discussion_data",
                         SkippedAtDiscussions(f_node, run_config))
    /\ UNCHANGED <<f_node, RunVars, PaginateVars, PollerVars, StepVars>>

FilterInit ==
    /\ f_node \in RepositoryNodes
    /\ f_decision = EmptyDict
    /\ run_config \in Configs
    /\ excluded \in ExclusionSets
    /\ PipelineIdle
    /\ PaginateIdle
    /\ PollerIdle
    /\ StepsIdle

FilterNext ==
    \/ FilterAtDiscovery
    \/ FilterAtQueryRepoNames
    \/ FilterAtIssues
    \/ FilterAtDiscussions

FilterSpec ==
    FilterInit /\ [][FilterNext]_vars

(***************************************************************************)
(* Properties of the filter                                                *)
(***************************************************************************)

\* The filtering policy as the specification words it.
PolicyExcludes(repo, config) ==
    \/ Get(repo, "isArchived", FALSE) /\ ~config.include_archived
    \/ Get(repo, "isFork", FALSE) /\ ~config.include_forks
    \/ InSeq(repo.name, excluded)
    \/ repo.name \in {"slides-", "course-", "course-intro"}

Decided(site) ==
    site \in DOMAIN f_decision

\* C16 Filtering policy: the discovery step skips a repository if and only if
\* (archived and not include_archived) or (fork and not include_forks) or the
\* name is in the ExclusionSet or starts with an excluded prefix; a name that
\* is exactly an excluded prefix is skipped whatever the flags, and a fork is
\* kept when include_forks is true and no other rule excludes it.
C16_FilteringPolicy ==
    Decided("add_repositories_to_result") =>
        LET skipped == f_decision["add_repositories_to_result"]
        IN /\ skipped <=> PolicyExcludes(f_node, run_config)
           /\ f_node.name \in {"slides-", "course-"} => skipped
           /\ (/\ f_node = RepoForked
               /\ run_config.include_forks) => ~skipped

\* The filter ran on the repository named "slides-" with both flags set to
\* include, and on a fork with include_forks true.
C16_Witness ==
    /\ Decided("add_repositories_to_result")
    /\ f_node = RepoSlidesPrefix
    /\ run_config.include_forks /\ run_config.include_archived
    /\ f_decision["add_repositories_to_result"]

FilterSites ==
    {"add_repositories_to_result", "query_repo_names", "add_issue_and_pr_data",
     "add_discussion_data"}

\* The flags of the node exclude it under the configuration.
ExcludedByFlags(repo, config) ==
    \/ Get(repo, "isArchived", FALSE) /\ ~config.include_archived
    \/ Get(repo, "isFork", FALSE) /\ ~config.include_forks

\* C17 as the specification states it: the four sites reach the same decision
\* on the same node under the same configuration.
C17_SameDecisionEverywhere ==
    \A s1, s2 \in DOMAIN f_decision : f_decision[s1] = f_decision[s2]

\* C17 Filtering at every site (amended): the discovery step and
\* query_repo_names reach the same decision on every node; the two steps that
\* list repositories before a lookup apply the name rules only, so they agree
\* with each other, skip nothing the discovery step keeps, and agree with the
\* discovery step on every node its flags do not exclude.
C17_SameDecisionWhereFlagsAllow ==
    /\ (Decided("add_repositories_to_result") /\ Decided("query_repo_names")) =>
           f_decision["add_repositories_to_result"] = f_decision["query_repo_names"]
    /\ (Decided("add_issue_and_pr_data") /\ Decided("add_discussion_data")) =>
           f_decision["add_issue_and_pr_data"] = f_decision["add_discussion_data"]
    /\ \A s1 \in {"add_repositories_to_result", "query_repo_names"},
          s2 \in {"add_issue_and_pr_data", "add_discussion_data"} :
           (Decided(s1) /\ Decided(s2)) =>
               /\ f_decision[s2] => f_decision[s1]
               /\ ~ExcludedByFlags(f_node, run_config) =>
                      f_decision[s1] = f_decision[s2]

\* All four sites have decided on a fork while forks are excluded: the two
\* discovering sites skip it, the two listing sites do not.
C17_Witness ==
    /\ DOMAIN f_decision = FilterSites
    /\ f_node = RepoForked
    /\ ~run_config.include_forks
    /\ f_decision["query_repo_names"]
    /\ ~f_decision["add_issue_and_pr_data"]

(***************************************************************************)
(* What the providers answer to the fetch steps                            *)
(***************************************************************************)

\* The pages graphql_paginate yields for the repository listing of the
\* discovery step and of query_repo_names: all kinds of node on two pages,
\* one repository only, and a listing of repositories that are all excluded.
FullListing ==
    << <<RepoA, None, RepoOld, RepoForked>>,
       <<RepoListed, RepoSlidesPrefix, RepoCourseIntro, RepoSlides, RepoC>> >>

RepoListings ==
    {FullListing,
     << <<RepoA>> >>,
     << <<RepoListed, RepoOldFork, RepoCoursePrefix>> >>}

\* A node of the issue and pull-request query.
IssueNode(name, n) ==
    [name |-> name,
     totalIssues |-> [totalCount |-> 2 * n], closedIssues |-> [totalCount |-> n],
     openIssues |-> [totalCount |-> n], openPullRequests |-> [totalCount |-> n],
     totalPullRequests |-> [totalCount |-> 3 * n],
     closedPullRequests |-> [totalCount |-> n],
     mergedPullRequests |-> [totalCount |-> n]]

\* The pages of the issue query: two pages that also name repositories the
\* discovery step never keeps, and a stale answer that names only
\* "b-excluded".
IssuePages ==
    << <<IssueNode("a", 1), None, IssueNode("b-excluded", 2), IssueNode("old", 1),
         IssueNode("ghost", 4)>>,
       <<IssueNode("c", 3), IssueNode("course-intro", 1)>> >>

IssueListings ==
    {IssuePages,
     << <<IssueNode("b-excluded", 2)>> >>}

\* The pages of the discussion query; the node of "c" carries no count.
DiscussionPages ==
    << <<[name |-> "a", discussions |-> [totalCount |-> 7]], [name |-> "c"],
         [name |-> "ghost", discussions |-> [totalCount |-> 1]], None,
         [name |-> "forked", discussions |-> [totalCount |-> 2]]>> >>

DiscussionListings ==
    {DiscussionPages,
     << <<[name |-> "b-excluded", discussions |-> [totalCount |-> 1]]>> >>}

\* What client.get_organization returns; the second organization has no name.
TheOrg ==
    [login |-> "org", name |-> "The Org", description |-> None,
     created_at |-> "2020-01-01T00:00:00", public_repos |-> 9]

Orgs ==
    {TheOrg,
     [login |-> "org", name |-> "", description |-> None,
      created_at |-> "", public_repos |-> 0]}

\* datetime.now(timezone.utc).isoformat()
Now ==
    "2026-01-01T00:00:00+00:00"

(***************************************************************************)
(* The fetch steps                                                         *)
(***************************************************************************)

\* What a fetcher does with the Report it is given: it returns a Report or
\* raises.
Returns(r) ==
    [raised |-> FALSE, result |-> r]

Raises ==
    [raised |-> TRUE]

\* The nodes of all pages, in order.
RECURSIVE AllNodes(_)
AllNodes(pages) ==
    IF pages = <<>> THEN <<>>
    ELSE Head(pages) \o AllNodes(Tail(pages))

\* fetchers/meta.py
add_meta_to_result(result, config) ==
    [result EXCEPT !.meta = [created_at |-> Now]]

\* fetchers/organization.py, given the organization object.
add_organization_info_to_result(result, config, org) ==
    [result EXCEPT !.org_info =
        [login |-> org.login,
         name |-> IF org.name # "" THEN org.name ELSE org.login,
         description |-> org.description,
         created_at |-> org.created_at,
         repositories_count |-> org.public_repos]]

\* The topic names of a node (repository.py:168-174).
RECURSIVE TopicNames(_)
TopicNames(nodes) ==
    IF nodes = <<>> THEN <<>>
    ELSE LET node == Head(nodes)
         IN (IF node # None /\ Get(node, "topic", None) # None
             THEN <<node.topic.name>> ELSE <<>>) \o TopicNames(Tail(nodes))

Topics(repo) ==
    LET nodes == Get(Get(repo, "repositoryTopics", EmptyDict), "nodes", <<>>)
    IN IF nodes # <<>> THEN TopicNames(nodes) ELSE <<>>

\* repository.py:176-178
LicenseName(repo) ==
    LET licenseInfo == Get(repo, "licenseInfo", None)
    IN IF licenseInfo # None /\ Get(licenseInfo, "name", "") # ""
       THEN licenseInfo.name
       ELSE "No License"

\* RepositoryResult(...) of repository.py:180-193
NewRepositoryResult(repo, contributors) ==
    [RepositoryResult EXCEPT
        !.repository_name = repo.name,
        !.repo_name_with_owner = Get(repo, "nameWithOwner", ""),
        !.license_name = LicenseName(repo),
        !.topics = Topics(repo),
        !.forks_count = Get(repo, "forkCount", 0),
        !.watchers_count = Get(Get(repo, "watchers", EmptyDict), "totalCount", 0),
        !.stars_count = Get(repo, "stargazerCount", 0),
        !.collaborators_count = Get(contributors, repo.name, 0),
        !.issues_enabled = Get(repo, "hasIssuesEnabled", FALSE),
        !.projects_enabled = Get(repo, "hasProjectsEnabled", FALSE),
        !.discussions_enabled = Get(repo, "hasDiscussionsEnabled", FALSE),
        !.projects_v2_count =
            Get(Get(repo, "projectsV2", EmptyDict), "totalCount", 0)]

\* Mutant: a record is created only for a name the Report does not hold.
RECURSIVE BuildIfAbsent(_, _, _)
BuildIfAbsent(repositories, all_repos, contributors) ==
    IF all_repos = <<>> THEN repositories
    ELSE LET repo == Head(all_repos)
         IN BuildIfAbsent(
                IF repo.name \in DOMAIN repositories THEN repositories
                ELSE Put(repositories, repo.name,
                         NewRepositoryResult(repo, contributors)),
                Tail(all_repos), contributors)

\* for repo in all_repos: result.repositories[repo_name] = RepositoryResult(...)
\* (repository.py:166-193)
RECURSIVE BuildRepositories(_, _, _)
BuildRepositories(repositories, all_repos, contributors) ==
    IF all_repos = <<>> THEN repositories
    ELSE LET repo == Head(all_repos)
         IN BuildRepositories(
                Put(repositories, repo.name,
                    NewRepositoryResult(repo, contributors)),
                Tail(all_repos), contributors)

\* Mutant: only the first page is read.
DiscoveredReposFirstPage(pages, config) ==
    IF pages = <<>> THEN <<>>
    ELSE SelectSeq(Head(pages), LAMBDA repo : ~SkippedAtDiscovery(repo, config))

\* The nodes the discovery step keeps (repository.py:137-158).
DiscoveredRepos(pages, config) ==
    SelectSeq(AllNodes(pages), LAMBDA repo : ~SkippedAtDiscovery(repo, config))

\* The names of a sequence of nodes.
NamesOf(nodes) ==
    {nodes[i].name : i \in DOMAIN nodes}

\* What _fetch_all_contributors can return for the units: an entry for each.
ContributorMaps(names) ==
    {[u \in names |-> n] : n \in 0..MaxContributors}

\* add_repositories_to_result, given the pages of the listing and the poller's
\* mapping.
add_repositories_to_result(result, config, pages, contributors) ==
    [result EXCEPT !.repositories =
        BuildRepositories(@, DiscoveredRepos(pages, config), contributors)]

\* _get_issue_and_pr_data (issues.py:67-76): the nodes that are not None.
NotNoneNodes(pages) ==
    SelectSeq(AllNodes(pages), LAMBDA n : n # None)

\* The writes of issues.py:102-122.
WithIssueCounts(record, repo) ==
    [record EXCEPT
        !.total_issues_count = repo.totalIssues.totalCount,
        !.open_issues_count = repo.openIssues.totalCount,
        !.closed_issues_count = repo.closedIssues.totalCount,
        !.total_pull_requests_count = repo.totalPullRequests.totalCount,
        !.open_pull_requests_count = repo.openPullRequests.totalCount,
        !.closed_pull_requests_count = repo.closedPullRequests.totalCount,
        !.merged_pull_requests_count = repo.mergedPullRequests.totalCount]

\* Mutant: the step creates the record it does not find.
RECURSIVE MergeIssueCountsCreating(_, _, _)
MergeIssueCountsCreating(repositories, data_result, config) ==
    IF data_result = <<>> THEN repositories
    ELSE LET repo == Head(data_result)
             repo_name == repo.name
         IN MergeIssueCountsCreating(
                IF should_exclude_repo(repo_name, config) THEN repositories
                ELSE Put(repositories, repo_name,
                         WithIssueCounts(Get(repositories, repo_name,
                                             RepositoryResult), repo)),
                Tail(data_result), config)

\* for repo in data_result (issues.py:94-122)
RECURSIVE MergeIssueCounts(_, _, _)
MergeIssueCounts(repositories, data_result, config) ==
    IF data_result = <<>> THEN repositories
    ELSE LET repo == Head(data_result)
             repo_name == repo.name
         IN MergeIssueCounts(
                IF should_exclude_repo(repo_name, config) THEN repositories
                ELSE IF repo_name \notin DOMAIN repositories THEN repositories
                ELSE [repositories EXCEPT
                          ![repo_name] = WithIssueCounts(@, repo)],
                Tail(data_result), config)

add_issue_and_pr_data(result, config, pages) ==
    [result EXCEPT !.repositories =
        MergeIssueCounts(@, NotNoneNodes(pages), config)]

\* Mutant: the step writes the count into total_issues_count as well.
RECURSIVE MergeDiscussionCountsAndIssues(_, _, _)
MergeDiscussionCountsAndIssues(repositories, data_result, config) ==
    IF data_result = <<>> THEN repositories
    ELSE LET repo == Head(data_result)
             repo_name == repo.name
             discussions_count ==
                 Get(Get(repo, "discussions", EmptyDict), "totalCount", 0)
         IN MergeDiscussionCountsAndIssues(
                IF should_exclude_repo(repo_name, config) THEN repositories
                ELSE IF repo_name \notin DOMAIN repositories THEN repositories
                ELSE [repositories EXCEPT
                          ![repo_name].discussions_count = discussions_count,
                          ![repo_name].total_issues_count = discussions_count],
                Tail(data_result), config)

\* for repo in data_result (discussions.py:69-78)
RECURSIVE MergeDiscussionCounts(_, _, _)
MergeDiscussionCounts(repositories, data_result, config) ==
    IF data_result = <<>> THEN repositories
    ELSE LET repo == Head(data_result)
             repo_name == repo.name
             discussions_count ==
                 Get(Get(repo, "discussions", EmptyDict), "totalCount", 0)
         IN MergeDiscussionCounts(
                IF should_exclude_repo(repo_name, config) THEN repositories
                ELSE IF repo_name \notin DOMAIN repositories THEN repositories
                ELSE [repositories EXCEPT
                          ![repo_name].discussions_count = discussions_count],
                Tail(data_result), config)

add_discussion_data(result, config, pages) ==
    [result EXCEPT !.repositories =
        MergeDiscussionCounts(@, NotNoneNodes(pages), config)]

\* What the issue-age and the response-time queries give for a repository
\* (milliseconds): no issue at all, or some.
SomeIssueMetrics ==
    [open_average_age |-> 40, open_median_age |-> 30, closed_average_age |-> 20,
     closed_median_age |-> 10, average |-> 6, median |-> 5]

IssueMetrics ==
    {[open_average_age |-> 0, open_median_age |-> 0, closed_average_age |-> 0,
      closed_median_age |-> 0, average |-> 0, median |-> 0],
     SomeIssueMetrics}

\* add_issue_metrics_data, given the metrics the queries give (issues.py:367-399).
add_issue_metrics_data(result, config, metrics) ==
    [result EXCEPT !.repositories =
        [repo_name \in DOMAIN @ |->
            [@[repo_name] EXCEPT
                !.open_issues_average_age = metrics.open_average_age,
                !.open_issues_median_age = metrics.open_median_age,
                !.closed_issues_average_age = metrics.closed_average_age,
                !.closed_issues_median_age = metrics.closed_median_age,
                !.issues_response_average_age = metrics.average,
                !.issues_response_median_age = metrics.median]]]

\* query_repo_names (utils.py:81-105), given the pages of the listing.
query_repo_names(pages, config) ==
    SelectSeq(AllNodes(pages), LAMBDA repo : ~SkippedAtQueryRepoNames(repo, config))

\* The day datetime.now() falls on, as a day number.
Today ==
    100

\* A PePy project: downloads per day and version.
PepyProject ==
    [total_downloads |-> 50,
     downloads |-> (Today - 1) :> ("1.0" :> 2 @@ "2.0" :> 1)
                   @@ (Today - 5) :> ("1.0" :> 4)
                   @@ (Today - 20) :> ("1.0" :> 8)
                   @@ (Today - 40) :> ("1.0" :> 16)]

\* The projects PePy knows, by name: none, or three of which one carries
\* neither a total nor downloads.
KnownToPepy ==
    "a" :> PepyProject @@ "slides" :> [id |-> "slides"] @@ "b-excluded" :> PepyProject

PepyProjects ==
    {EmptyDict, KnownToPepy}

\* The sum of the values of a dict.
RECURSIVE SumValues(_)
SumValues(d) ==
    IF DOMAIN d = {} THEN 0
    ELSE LET k == CHOOSE x \in DOMAIN d : TRUE
         IN d[k] + SumValues([x \in DOMAIN d \ {k} |-> d[x]])

\* _query_projects_for_repositories: the repositories PePy answers for with
\* a non-empty project, in order (downloads_pepy.py:52-108).
PepyOutput(repositories, pepy) ==
    LET found == SelectSeq(repositories, LAMBDA repo : repo.name \in DOMAIN pepy)
    IN [i \in DOMAIN found |->
           [repo_name |-> found[i].name, data |-> pepy[found[i].name]]]

\* _process_download_numbers (downloads_pepy.py:122-158): current_date is
\* yesterday; a day counts for the month if it is later than 30 days before
\* it, for the week if it is later than 7 days before it.
process_download_numbers(project_result) ==
    LET current_date == Today - 1
        downloads == Get(project_result, "downloads", EmptyDict)
        download_collapsed == [d \in DOMAIN downloads |-> SumValues(downloads[d])]
        since(n) == [d \in {x \in DOMAIN download_collapsed : x >= current_date - n}
                        |-> download_collapsed[d]]
    IN [total |-> Get(project_result, "total_downloads", 0),
        monthly |-> SumValues(since(30)),
        weekly |-> SumValues(since(7)),
        daily |-> Get(download_collapsed, current_date, 0)]

\* Mutant: the step creates the record it does not find.
RECURSIVE MergePepyCreating(_, _)
MergePepyCreating(repositories, output) ==
    IF output = <<>> THEN repositories
    ELSE LET project == Head(output)
             repo_name == project.repo_name
             processed == process_download_numbers(project.data)
         IN MergePepyCreating(
                Put(repositories, repo_name,
                    [Get(repositories, repo_name, RepositoryResult) EXCEPT
                         !.total_download_count = processed.total,
                         !.monthly_download_count = processed.monthly,
                         !.weekly_download_count = processed.weekly,
                         !.daily_download_count = processed.daily]),
                Tail(output))

\* for project in output (downloads_pepy.py:182-199)
RECURSIVE MergePepy(_, _)
MergePepy(repositories, output) ==
    IF output = <<>> THEN repositories
    ELSE LET project == Head(output)
             repo_name == project.repo_name
             processed == process_download_numbers(project.data)
         IN MergePepy(
                IF repo_name \notin DOMAIN repositories THEN repositories
                ELSE [repositories EXCEPT
                          ![repo_name].total_download_count = processed.total,
                          ![repo_name].monthly_download_count = processed.monthly,
                          ![repo_name].weekly_download_count = processed.weekly,
                          ![repo_name].daily_download_count = processed.daily],
                Tail(output))

\* add_downloads_pepy, given PEPY_API_KEY, the pages of the listing and the
\* projects PePy knows.
add_downloads_pepy(result, config, api_key, pages, pepy) ==
    IF api_key = "" THEN result
    ELSE [result EXCEPT !.repositories =
             MergePepy(@, PepyOutput(query_repo_names(pages, config), pepy))]

\* brainglobe_legacy.json as (key, value) pairs in file order, each value with
\* its JSON type; None when there is no file.
LegacyFile ==
    << <<"a-old", [type |-> "str", value |-> "a"]>>,
       <<"a-older", [type |-> "str", value |-> "a"]>>,
       <<"odd", [type |-> "int", value |-> 5]>>,
       <<"gone-old", [type |-> "str", value |-> "gone"]>> >>

LegacyFiles ==
    {None, LegacyFile}

\* The parquet files as DuckDB sees them: the downloads of every package over
\* all files (total) and in the file of the last month (monthly; empty when
\* that file is missing), or an error of the query.
ParquetFiles ==
    [error |-> FALSE,
     total |-> "a" :> 10 @@ "a-old" :> 5 @@ "a-older" :> 1 @@ "c" :> 7
               @@ "gone-old" :> 3 @@ "odd" :> 2 @@ "numpy" :> 99,
     monthly |-> "a" :> 2 @@ "a-old" :> 1]

ParquetData ==
    {ParquetFiles,
     [error |-> FALSE, total |-> "c" :> 1, monthly |-> EmptyDict],
     [error |-> TRUE, total |-> EmptyDict, monthly |-> EmptyDict]}

\* legacy_packages_map (fetch_parquet.py:83-91)
RECURSIVE LegacyPackagesMap(_)
LegacyPackagesMap(legacy_packages) ==
    IF legacy_packages = <<>> THEN EmptyDict
    ELSE LET key == legacy_packages[Len(legacy_packages)][1]
             value == legacy_packages[Len(legacy_packages)][2]
             rest == LegacyPackagesMap(SubSeq(legacy_packages, 1,
                                              Len(legacy_packages) - 1))
         IN IF value.type = "str" THEN Put(rest, key, value.value) ELSE rest

legacy_packages_map(config, legacy_file) ==
    IF config.organization = "brainglobe" /\ legacy_file # None
    THEN LegacyPackagesMap(legacy_file)
    ELSE EmptyDict

\* The keys of the legacy map in file order (packages.extend, line 92).
LegacyKeys(config, legacy_file) ==
    IF config.organization = "brainglobe" /\ legacy_file # None
    THEN LET kept == SelectSeq(legacy_file, LAMBDA kv : kv[2].type = "str")
         IN [i \in DOMAIN kept |-> kept[i][1]]
    ELSE <<>>

\* SELECT pkg_name, SUM(counts) ... WHERE pkg_name IN (packages) GROUP BY
\* pkg_name: one row per package that has downloads (fetch_parquet.py:128-151).
RECURSIVE QueryRows(_, _, _)
QueryRows(packages, table, done) ==
    IF packages = <<>> THEN <<>>
    ELSE LET pkg == Head(packages)
         IN IF pkg \in DOMAIN table /\ pkg \notin done
            THEN <<[pkg_name |-> pkg, total |-> table[pkg]]>>
                 \o QueryRows(Tail(packages), table, done \cup {pkg})
            ELSE QueryRows(Tail(packages), table, done)

\* Mutant: a row overwrites the field.
RECURSIVE MergeCondaOverwriting(_, _, _, _)
MergeCondaOverwriting(repositories, rows, legacy, field) ==
    IF rows = <<>> THEN repositories
    ELSE LET pkg_name == Get(legacy, Head(rows).pkg_name, Head(rows).pkg_name)
         IN MergeCondaOverwriting(
                IF pkg_name \notin DOMAIN repositories THEN repositories
                ELSE [repositories EXCEPT
                          ![pkg_name][field] = Head(rows).total],
                Tail(rows), legacy, field)

\* for pkg_name, total in rows: result.repositories[pkg_name].<field> += total
\* (fetch_parquet.py:162-181)
RECURSIVE MergeConda(_, _, _, _)
MergeConda(repositories, rows, legacy, field) ==
    IF rows = <<>> THEN repositories
    ELSE LET pkg_name == Get(legacy, Head(rows).pkg_name, Head(rows).pkg_name)
         IN MergeConda(
                IF pkg_name \notin DOMAIN repositories THEN repositories
                ELSE [repositories EXCEPT
                          ![pkg_name][field] = @ + Head(rows).total],
                Tail(rows), legacy, field)

\* add_conda_data, given the pages of the listing, the legacy file and the
\* parquet data.
add_conda_data(result, config, pages, legacy_file, parquet) ==
    LET listed == query_repo_names(pages, config)
        legacy == legacy_packages_map(config, legacy_file)
        packages == [i \in DOMAIN listed |-> listed[i].name]
                    \o LegacyKeys(config, legacy_file)
        total_downloads == QueryRows(packages, parquet.total, {})
        last_month_downloads == QueryRows(packages, parquet.monthly, {})
    IN IF parquet.error THEN result
       ELSE [result EXCEPT !.repositories =
                MergeConda(
                    MergeConda(@, total_downloads, legacy, "conda_total_downloads"),
                    last_month_downloads, legacy, "conda_monthly_downloads")]

(***************************************************************************)
(* main.py: run_pipeline                                                   *)
(***************************************************************************)

\* The fetchers main hands to run_pipeline (main.py:165-172).
MainFetchers ==
    <<"add_meta_to_result", "add_organization_info_to_result",
      "add_repositories_to_result", "add_issue_and_pr_data",
      "add_discussion_data", "add_issue_metrics_data", "add_downloads_pepy",
      "add_conda_data">>

FetcherNames ==
    {MainFetchers[i] : i \in DOMAIN MainFetchers}

\* os.getenv / os.environ.get: "" stands for a variable that is not set.
getenv(key) ==
    Get(env, key, "")

\* Mutant: every fetcher is given a fresh Report.
FetcherArgumentFresh ==
    Result

\* The Report the next fetcher is given: run_pipeline's `result` (main.py:64).
FetcherArgument ==
    rp_result

\* Mutant: a fetcher that raises leaves a fresh Report behind.
RunFetcherRollingBack(name, input, outcome, rate_limit_raises) ==
    /\ rp_pc = "running"
    /\ step <= Len(fetchers)
    /\ fetchers[step] = name
    /\ trace' = Append(trace, name)
    /\ call' = [fetcher |-> name, arg |-> FetcherArgument, input |-> input,
                outcome |-> outcome,
                rate_limit_raised |-> ~outcome.raised /\ rate_limit_raises]
    /\ IF outcome.raised
       THEN /\ rp_pc' = "raised"
            /\ rp_result' = Result
            /\ step' = step
       ELSE /\ rp_result' = outcome.result
            /\ IF rate_limit_raises
               THEN rp_pc' = "raised" /\ step' = step
               ELSE rp_pc' = rp_pc /\ step' = step + 1
    /\ UNCHANGED <<run_config, excluded, provider, fetchers, returned, main_pc,
                   env, yaml_config, org_names, org_i, files, FilterVars,
                   PaginateVars, PollerVars, StepVars>>

\* Mutant: a fetcher sets a field of the Config it is given.
RunFetcherChangingConfig(name, input, outcome, rate_limit_raises) ==
    /\ rp_pc = "running"
    /\ step <= Len(fetchers)
    /\ fetchers[step] = name
    /\ trace' = Append(trace, name)
    /\ call' = [fetcher |-> name, arg |-> FetcherArgument, input |-> input,
                outcome |-> outcome,
                rate_limit_raised |-> ~outcome.raised /\ rate_limit_raises]
    /\ IF outcome.raised
       THEN /\ rp_pc' = "raised"
            /\ UNCHANGED <<step, rp_result>>
       ELSE /\ rp_result' = outcome.result
            /\ IF rate_limit_raises
               THEN rp_pc' = "raised" /\ step' = step
               ELSE rp_pc' = rp_pc /\ step' = step + 1
    /\ run_config' = [run_config EXCEPT !.include_forks = TRUE]
    /\ UNCHANGED <<excluded, provider, fetchers, returned, main_pc,
                   env, yaml_config, org_names, org_i, files, FilterVars,
                   PaginateVars, PollerVars, StepVars>>

\* Mutant: the loop goes on after a fetcher that raised.
RunFetcherCatching(name, input, outcome, rate_limit_raises) ==
    /\ rp_pc = "running"
    /\ step <= Len(fetchers)
    /\ fetchers[step] = name
    /\ trace' = Append(trace, name)
    /\ call' = [fetcher |-> name, arg |-> FetcherArgument, input |-> input,
                outcome |-> outcome, rate_limit_raised |-> rate_limit_raises]
    /\ rp_result' = IF outcome.raised THEN rp_result ELSE outcome.result
    /\ step' = step + 1
    /\ rp_pc' = rp_pc
    /\ UNCHANGED <<run_config, excluded, provider, fetchers, returned, main_pc,
                   env, yaml_config, org_names, org_i, files, FilterVars,
                   PaginateVars, PollerVars, StepVars>>

\* One iteration of `for fetcher in fetchers` (main.py:62-73): the fetcher
\* named `name`, given `input` by the providers, returns or raises (`outcome`);
\* then check_rate_limit is called, which may raise too. An exception leaves
\* run_pipeline.
RunFetcher(name, input, outcome, rate_limit_raises) ==
    /\ rp_pc = "running"
    /\ step <= Len(fetchers)
    /\ fetchers[step] = name
    /\ trace' = Append(trace, name)
    /\ call' = [fetcher |-> name, arg |-> FetcherArgument, input |-> input,
                outcome |-> outcome,
                rate_limit_raised |-> ~outcome.raised /\ rate_limit_raises]
    /\ IF outcome.raised
       THEN /\ rp_pc' = "raised"
            /\ UNCHANGED <<step, rp_result>>
       ELSE /\ rp_result' = outcome.result
            /\ IF rate_limit_raises
               THEN rp_pc' = "raised" /\ step' = step
               ELSE rp_pc' = rp_pc /\ step' = step + 1
    /\ UNCHANGED <<run_config, excluded, provider, fetchers, returned, main_pc,
                   env, yaml_config, org_names, org_i, files, FilterVars,
                   PaginateVars, PollerVars, StepVars>>

RunMeta ==
    \E rl \in BOOLEAN :
        RunFetcher("add_meta_to_result", EmptyDict,
                   Returns(add_meta_to_result(FetcherArgument, run_config)), rl)

RunOrganizationInfo ==
    \/ \E org \in provider.orgs, rl \in BOOLEAN :
           RunFetcher("add_organization_info_to_result", [org |-> org],
                      Returns(add_organization_info_to_result(
                                  FetcherArgument, run_config, org)), rl)
    \/ RunFetcher("add_organization_info_to_result", EmptyDict, Raises, FALSE)

RunRepositories ==
    \/ \E pages \in provider.repo_listings, n \in provider.contributors,
          rl \in BOOLEAN :
           LET units == NamesOf(DiscoveredRepos(pages, run_config))
               contributors == [u \in units |-> n]
           IN RunFetcher("add_repositories_to_result",
                         [pages |-> pages, contributors |-> contributors],
                         Returns(add_repositories_to_result(
                                     FetcherArgument, run_config, pages,
                                     contributors)), rl)
    \/ RunFetcher("add_repositories_to_result", EmptyDict, Raises, FALSE)

RunIssueAndPrData ==
    \/ \E pages \in provider.issue_listings, rl \in BOOLEAN :
           RunFetcher("add_issue_and_pr_data", [pages |-> pages],
                      Returns(add_issue_and_pr_data(
                                  FetcherArgument, run_config, pages)), rl)
    \/ RunFetcher("add_issue_and_pr_data", EmptyDict, Raises, FALSE)

RunDiscussionData ==
    \/ \E pages \in provider.discussion_listings, rl \in BOOLEAN :
           RunFetcher("add_discussion_data", [pages |-> pages],
                      Returns(add_discussion_data(
                                  FetcherArgument, run_config, pages)), rl)
    \/ RunFetcher("add_discussion_data", EmptyDict, Raises, FALSE)

RunIssueMetricsData ==
    \/ \E metrics \in provider.issue_metrics, rl \in BOOLEAN :
           RunFetcher("add_issue_metrics_data", [metrics |-> metrics],
                      Returns(add_issue_metrics_data(
                                  FetcherArgument, run_config, metrics)), rl)
    \/ RunFetcher("add_issue_metrics_data", EmptyDict, Raises, FALSE)

RunDownloadsPepy ==
    \/ \E pages \in provider.repo_listings, pepy \in provider.pepy,
          rl \in BOOLEAN :
           RunFetcher("add_downloads_pepy", [pages |-> pages, pepy |-> pepy],
                      Returns(add_downloads_pepy(
                                  FetcherArgument, run_config,
                                  getenv("PEPY_API_KEY"), pages, pepy)), rl)
    \/ RunFetcher("add_downloads_pepy", EmptyDict, Raises, FALSE)

RunCondaData ==
    \/ \E pages \in provider.repo_listings, legacy_file \in provider.legacy_files,
          parquet \in provider.parquet, rl \in BOOLEAN :
           RunFetcher("add_conda_data",
                      [pages |-> pages, legacy_file |-> legacy_file,
                       parquet |-> parquet],
                      Returns(add_conda_data(
                                  FetcherArgument, run_config, pages, legacy_file,
                                  parquet)), rl)
    \/ RunFetcher("add_conda_data", EmptyDict, Raises, FALSE)

\* return result (main.py:75)
PipelineReturn ==
    /\ rp_pc = "running"
    /\ step > Len(fetchers)
    /\ rp_pc' = "returned"
    /\ returned' = Append(returned, rp_result)
    /\ UNCHANGED <<run_config, excluded, provider, fetchers, step, rp_result,
                   trace, call, main_pc, env, yaml_config, org_names, org_i, files,
                   FilterVars, PaginateVars, PollerVars, StepVars>>

\* The providers may answer anything of the catalogue at any request.
AnyAnswer ==
    [orgs |-> Orgs, repo_listings |-> RepoListings,
     contributors |-> {0, MaxContributors},
     issue_listings |-> IssueListings, discussion_listings |-> DiscussionListings,
     issue_metrics |-> IssueMetrics, pepy |-> PepyProjects,
     legacy_files |-> LegacyFiles, parquet |-> ParquetData]

\* The fetcher lists run_pipeline is called with: none, any fetcher alone,
\* before or after the discovery step, between two discovery steps, or
\* twice after the discovery step.
FetcherLists ==
    {<<>>}
    \cup {<<f>> : f \in FetcherNames}
    \cup {<<"add_repositories_to_result", f>> : f \in FetcherNames}
    \cup {<<f, "add_repositories_to_result">> : f \in FetcherNames}
    \cup {<<"add_repositories_to_result", f, "add_repositories_to_result">> :
              f \in FetcherNames}
    \cup {<<"add_repositories_to_result", f, f>> : f \in FetcherNames}

\* run_pipeline(client, config, *fetchers) is called: result = Result()
\* (main.py:60).
FetchInit ==
    /\ run_config \in Configs
    /\ excluded \in ExclusionSets
    /\ provider = AnyAnswer
    /\ fetchers \in FetcherLists
    /\ rp_pc = "running"
    /\ step = 1
    /\ rp_result = Result
    /\ trace = <<>>
    /\ call = None
    /\ returned = <<>>
    /\ main_pc = "none"
    /\ env \in {[GRAPHQL_TOKEN |-> "t", PEPY_API_KEY |-> "k"],
                [GRAPHQL_TOKEN |-> "t"]}
    /\ yaml_config = EmptyDict
    /\ org_names = <<>>
    /\ org_i = 1
    /\ files = EmptyDict
    /\ FilterIdle
    /\ PaginateIdle
    /\ PollerIdle
    /\ StepsIdle

FetchNext ==
    \/ RunMeta
    \/ RunOrganizationInfo
    \/ RunRepositories
    \/ RunIssueAndPrData
    \/ RunDiscussionData
    \/ RunIssueMetricsData
    \/ RunDownloadsPepy
    \/ RunCondaData
    \/ PipelineReturn

FetchSpec ==
    FetchInit /\ [][FetchNext]_vars

(***************************************************************************)
(* main.py: main                                                           *)
(***************************************************************************)

\* The process environments: each secret set or not, ORGANIZATION_NAME set
\* or not.
Envs ==
    {[k \in ks |-> IF k = "ORGANIZATION_NAME" THEN "brainglobe" ELSE "secret"] :
         ks \in SUBSET {"GRAPHQL_TOKEN", "PEPY_API_KEY", "ORGANIZATION_NAME"}}

\* What load_config returns: no file, one organization as a string, two as a
\* list with the flags and `since` set, an empty list. The value of
\* `organization` carries its YAML type.
YamlConfigs ==
    {EmptyDict,
     [organization |-> [type |-> "str", value |-> "org"]],
     [organization |-> [type |-> "list", value |-> <<"org", "brainglobe">>],
      includeForks |-> TRUE, includeArchived |-> TRUE, since |-> "2024-06-01"],
     [organization |-> [type |-> "list", value |-> <<>>], includeForks |-> TRUE]}

\* During a run of main the providers answer every request the same way.
SteadyAnswer ==
    [orgs |-> {TheOrg}, repo_listings |-> {FullListing},
     contributors |-> {MaxContributors},
     issue_listings |-> {IssuePages}, discussion_listings |-> {DiscussionPages},
     issue_metrics |-> {SomeIssueMetrics}, pepy |-> {KnownToPepy},
     legacy_files |-> {LegacyFile}, parquet |-> {ParquetFiles}]

\* yaml_config.get("organization", [])
ConfigOrganization ==
    Get(yaml_config, "organization", [type |-> "list", value |-> <<>>])

\* `not config_organization_names`
NoConfigOrganization ==
    \/ ConfigOrganization.type = "str" /\ ConfigOrganization.value = ""
    \/ ConfigOrganization.type = "list" /\ ConfigOrganization.value = <<>>

\* datetime.fromisoformat(str(since_config)).isoformat() of a date, or the
\* default look-back (main.py:135-141).
SinceOf(since_config) ==
    IF since_config # ""
    THEN IF Len(since_config) = 10 THEN since_config \o "T00:00:00"
         ELSE since_config
    ELSE Since

\* Mutant: the organization is not checked.
MainStartNoOrganizationCheck ==
    /\ main_pc = "start"
    /\ IF getenv("GRAPHQL_TOKEN") = "" \/ getenv("PEPY_API_KEY") = ""
       THEN main_pc' = "skipped" /\ UNCHANGED org_names
       ELSE /\ main_pc' = "loop"
            /\ org_names' = IF ConfigOrganization.type = "str"
                            THEN <<ConfigOrganization.value>>
                            ELSE ConfigOrganization.value
    /\ UNCHANGED <<run_config, excluded, provider, fetchers, rp_pc, step,
                   rp_result, trace, call, returned, env, yaml_config, org_i,
                   files, FilterVars, PaginateVars, PollerVars, StepVars>>

\* main up to its loop (main.py:105-133).
MainStart ==
    /\ main_pc = "start"
    /\ IF getenv("GRAPHQL_TOKEN") = "" \/ getenv("PEPY_API_KEY") = ""
       THEN main_pc' = "skipped" /\ UNCHANGED org_names
       ELSE IF getenv("ORGANIZATION_NAME") = "" /\ NoConfigOrganization
       THEN main_pc' = "exit1" /\ UNCHANGED org_names
       ELSE /\ main_pc' = "loop"
            /\ org_names' = IF ConfigOrganization.type = "str"
                            THEN <<ConfigOrganization.value>>
                            ELSE ConfigOrganization.value
    /\ UNCHANGED <<run_config, excluded, provider, fetchers, rp_pc, step,
                   rp_result, trace, call, returned, env, yaml_config, org_i,
                   files, FilterVars, PaginateVars, PollerVars, StepVars>>

\* One iteration of `for org_name in config_organization_names` up to the call
\* of run_pipeline, which starts with result = Result() (main.py:143-173, 60).
MainCallPipeline ==
    /\ main_pc = "loop"
    /\ org_i <= Len(org_names)
    /\ LET org_name == org_names[org_i]
           env_organization_name == getenv("ORGANIZATION_NAME")
           effective_org_name == IF env_organization_name # ""
                                 THEN env_organization_name ELSE org_name
       IN run_config' = Config(effective_org_name,
                               Get(yaml_config, "includeForks", FALSE),
                               Get(yaml_config, "includeArchived", FALSE),
                               SinceOf(Get(yaml_config, "since", "")))
    /\ fetchers' = MainFetchers
    /\ rp_pc' = "running"
    /\ step' = 1
    /\ rp_result' = Result
    /\ trace' = <<>>
    /\ call' = None
    /\ main_pc' = "pipeline"
    /\ UNCHANGED <<excluded, provider, returned, env, yaml_config, org_names,
                   org_i, files, FilterVars,
                   PaginateVars, PollerVars, StepVars>>

\* result = run_pipeline(...); output_result(result, org_name) (main.py:162-176)
MainOutput ==
    /\ main_pc = "pipeline"
    /\ rp_pc = "returned"
    /\ files' = Put(files, org_names[org_i], returned[Len(returned)])
    /\ org_i' = org_i + 1
    /\ main_pc' = "loop"
    /\ rp_pc' = "idle"
    /\ UNCHANGED <<run_config, excluded, provider, fetchers, step, rp_result,
                   trace, call, returned, env, yaml_config, org_names,
                   FilterVars, PaginateVars, PollerVars, StepVars>>

\* An exception of run_pipeline is not caught: it leaves main.
MainPropagate ==
    /\ main_pc = "pipeline"
    /\ rp_pc = "raised"
    /\ main_pc' = "raised"
    /\ UNCHANGED <<run_config, excluded, provider, fetchers, rp_pc, step,
                   rp_result, trace, call, returned, env, yaml_config, org_names,
                   org_i, files, FilterVars,
                   PaginateVars, PollerVars, StepVars>>

\* The loop is over.
MainEnd ==
    /\ main_pc = "loop"
    /\ org_i > Len(org_names)
    /\ main_pc' = "end"
    /\ UNCHANGED <<run_config, excluded, provider, fetchers, rp_pc, step,
                   rp_result, trace, call, returned, env, yaml_config, org_names,
                   org_i, files, FilterVars,
                   PaginateVars, PollerVars, StepVars>>

MainInit ==
    /\ main_pc = "start"
    /\ env \in Envs
    /\ yaml_config \in YamlConfigs
    /\ excluded \in ExclusionSets
    /\ provider = SteadyAnswer
    /\ run_config = Config("", FALSE, FALSE, "")
    /\ fetchers = <<>>
    /\ rp_pc = "idle"
    /\ step = 1
    /\ rp_result = Result
    /\ trace = <<>>
    /\ call = None
    /\ returned = <<>>
    /\ org_names = <<>>
    /\ org_i = 1
    /\ files = EmptyDict
    /\ FilterIdle
    /\ PaginateIdle
    /\ PollerIdle
    /\ StepsIdle

MainNext ==
    \/ MainStart
    \/ MainCallPipeline
    \/ FetchNext
    \/ MainOutput
    \/ MainPropagate
    \/ MainEnd

MainSpec ==
    MainInit /\ [][MainNext]_vars

(***************************************************************************)
(* Properties of the fetch steps                                           *)
(***************************************************************************)

\* The last fetcher invoked was `name` and it returned.
Returned(name) ==
    call # None /\ call.fetcher = name /\ ~call.outcome.raised

\* The records before and after the last invocation.
Before ==
    call.arg.repositories

After ==
    call.outcome.result.repositories

LookupSteps ==
    {"add_issue_and_pr_data", "add_discussion_data", "add_downloads_pepy",
     "add_conda_data"}

\* The names the provider asked by query_repo_names answers for, as the
\* filtering policy has it.
EligibleNames(pages, config) ==
    {n.name : n \in {m \in {AllNodes(pages)[i] : i \in DOMAIN AllNodes(pages)} :
                        m # None /\ ~PolicyExcludes(m, config)}}

\* The (legacy name, repository) pairs in use at the last invocation of
\* add_conda_data.
LegacyPairs ==
    IF run_config.organization = "brainglobe" /\ call.input.legacy_file # None
    THEN {<<"a-old", "a">>, <<"a-older", "a">>, <<"gone-old", "gone">>}
    ELSE {}

\* The repository a package name stands for.
TargetOf(pkg) ==
    IF \E lp \in LegacyPairs : lp[1] = pkg
    THEN (CHOOSE lp \in LegacyPairs : lp[1] = pkg)[2]
    ELSE pkg

\* The package names add_conda_data asks the parquet files about.
AskedPackages ==
    EligibleNames(call.input.pages, run_config) \cup {lp[1] : lp \in LegacyPairs}

\* The repository names the provider data of the last invocation name.
ProviderNames ==
    IF call.fetcher \in {"add_issue_and_pr_data", "add_discussion_data"}
    THEN NamesOf(NotNoneNodes(call.input.pages))
    ELSE IF call.fetcher = "add_downloads_pepy"
    THEN DOMAIN call.input.pepy
    ELSE IF call.fetcher = "add_conda_data"
    THEN {TargetOf(pkg) : pkg \in DOMAIN call.input.parquet.total
                                   \cup DOMAIN call.input.parquet.monthly}
    ELSE {}

\* C12 Skip-if-absent: when a lookup-only step is given provider data for a
\* name that is not a key of the Report, it creates no record for it and
\* changes no field of any record on its account: the keys stay as they were,
\* the records the provider data do not name are unchanged, and a step whose
\* provider data name no key at all returns the Report as it was.
C12_SkipIfAbsent ==
    \A f \in LookupSteps :
        Returned(f) =>
            /\ DOMAIN After = DOMAIN Before
            /\ \A name \in DOMAIN Before \ ProviderNames :
                   After[name] = Before[name]
            /\ ProviderNames \cap DOMAIN Before = {} =>
                   call.outcome.result = call.arg

\* After the discovery step kept only "a", the issue step is answered with
\* "b-excluded" alone, which no rule excludes: the Report still holds exactly
\* the record of "a".
C12_Witness ==
    /\ Returned("add_issue_and_pr_data")
    /\ excluded = <<>>
    /\ ProviderNames = {"b-excluded"}
    /\ DOMAIN Before = {"a"}
    /\ DOMAIN After = {"a"}

\* C13 Records are created by the discovery step only: every other step
\* returns a Report with the same keys as the one it was given, and the
\* discovery step deletes none.
C13_KeysOnlyFromDiscovery ==
    /\ \A f \in FetcherNames \ {"add_repositories_to_result"} :
           Returned(f) => DOMAIN After = DOMAIN Before
    /\ Returned("add_repositories_to_result") => DOMAIN Before \subseteq DOMAIN After

\* The PePy step ran on a Report of records and was answered for a project
\* the Report does not hold.
C13_Witness ==
    /\ Returned("add_downloads_pepy")
    /\ getenv("PEPY_API_KEY") # ""
    /\ DOMAIN Before # {}
    /\ \E i \in DOMAIN query_repo_names(call.input.pages, run_config) :
           LET name == query_repo_names(call.input.pages, run_config)[i].name
           IN name \in DOMAIN call.input.pepy /\ name \notin DOMAIN Before

\* C14 Discovery postcondition: run on an empty Report, the discovery step
\* returns records for exactly the names, over all pages, of the repositories
\* the filtering policy keeps.
C14_DiscoveryPostcondition ==
    (Returned("add_repositories_to_result") /\ Before = EmptyDict) =>
        /\ DOMAIN After = EligibleNames(call.input.pages, run_config)
        /\ \A name \in DOMAIN After : After[name].repository_name = name

\* The two-page listing was discovered with forks included: the fork of the
\* first page and the repositories of the second page are there, the excluded
\* ones are not.
C14_Witness ==
    /\ Returned("add_repositories_to_result")
    /\ Before = EmptyDict
    /\ Len(call.input.pages) = 2
    /\ run_config.include_forks /\ ~run_config.include_archived
    /\ {"a", "forked", "c", "slides"} \subseteq DOMAIN After
    /\ DOMAIN After \cap {"old", "slides-", "course-intro"} = {}

\* C15 Create-if-absent: the discovery step keeps the record of a name the
\* Report already holds.
C15_ExistingRecordKept ==
    Returned("add_repositories_to_result") =>
        \A name \in DOMAIN Before : After[name] = Before[name]

\* The numbers the parquet data report for the packages that stand for r.
RECURSIVE SumOver(_, _)
SumOver(table, pkgs) ==
    IF pkgs = {} THEN 0
    ELSE LET pkg == CHOOSE x \in pkgs : TRUE
         IN table[pkg] + SumOver(table, pkgs \ {pkg})

ReportedFor(r, table) ==
    SumOver(table, {pkg \in AskedPackages \cap DOMAIN table : TargetOf(pkg) = r})

\* C18 Accumulation is add-in-place: after add_conda_data every record's
\* conda_total_downloads is its value before the step plus the totals
\* reported for the package names that stand for it (its own name, or legacy
\* names remapped to it), and likewise conda_monthly_downloads.
C18_CondaAddsInPlace ==
    (Returned("add_conda_data") /\ ~call.input.parquet.error) =>
        \A r \in DOMAIN After :
            /\ After[r].conda_total_downloads =
                   Before[r].conda_total_downloads
                   + ReportedFor(r, call.input.parquet.total)
            /\ After[r].conda_monthly_downloads =
                   Before[r].conda_monthly_downloads
                   + ReportedFor(r, call.input.parquet.monthly)

\* add_conda_data ran a second time on the record of "a", which already held
\* downloads: its own total and those of its two legacy names were added.
C18_Witness ==
    /\ Returned("add_conda_data")
    /\ "a" \in DOMAIN Before
    /\ Before["a"].conda_total_downloads = 16
    /\ After["a"].conda_total_downloads = 32
    /\ After["a"].conda_monthly_downloads = Before["a"].conda_monthly_downloads + 3

(***************************************************************************)
(* Properties of run_pipeline and main                                     *)
(***************************************************************************)

\* The steps invoked so far are the first steps of the list, in its order;
\* the first is given a fresh empty Report; run_pipeline returns after the
\* whole list, and what it returns is what the last step returned.
PipelineOrder ==
    /\ Len(trace) <= Len(fetchers)
    /\ \A i \in DOMAIN trace : trace[i] = fetchers[i]
    /\ Len(trace) = 1 => call.arg = Result
    /\ rp_pc = "returned" =>
           /\ trace = fetchers
           /\ returned[Len(returned)] =
                  IF fetchers = <<>> THEN Result ELSE call.outcome.result
           /\ fetchers # <<>> => ~call.outcome.raised

\* A step is invoked only after the one before it has returned, and is given
\* what that one returned.
PipelineHandOver ==
    (Len(trace') = Len(trace) + 1 /\ call # None) =>
        /\ ~call.outcome.raised
        /\ ~call.rate_limit_raised
        /\ call'.arg = call.outcome.result

\* C19 Pipeline ordering: run_pipeline starts from a fresh empty Report,
\* invokes the given steps in the given order, each once, starts a step only
\* after the one before it has returned, gives each step exactly the value
\* the one before it returned, and returns the value the last step returned.
C19_PipelineOrdering ==
    []PipelineOrder /\ [][PipelineHandOver]_vars

\* A list of three steps was run to its end; the last step was given a Report
\* that held records and returned a different one, which run_pipeline returned.
C19_Witness ==
    /\ rp_pc = "returned"
    /\ Len(fetchers) = 3
    /\ trace = fetchers
    /\ call.arg.repositories # EmptyDict
    /\ call.outcome.result # call.arg
    /\ returned = <<call.outcome.result>>

\* C20 Step-fatal abort: when a fetch step raises, run_pipeline runs no later
\* step and returns nothing, and main writes no report file for that run; a
\* report file holds what run_pipeline returned after every step of the run
\* had completed.
C20_StepFatalAbort ==
    /\ (call # None /\ call.outcome.raised) =>
           /\ rp_pc = "raised"
           /\ Len(trace) = step
           /\ trace[step] = call.fetcher
           /\ Len(returned) = org_i - 1
           /\ org_names[org_i] \notin DOMAIN files
    /\ rp_pc = "returned" =>
           /\ trace = MainFetchers
           /\ ~call.outcome.raised
    /\ DOMAIN files = {org_names[i] : i \in 1..(org_i - 1)}
    /\ \A i \in 1..(org_i - 1) : files[org_names[i]] = returned[i]
    /\ Len(returned) \in {org_i - 1, org_i}

\* The run of the first organization was written; a step of the run of the
\* second raised after others had returned, main was left by the exception and
\* there is no file for the second organization.
C20_Witness ==
    /\ main_pc = "raised"
    /\ org_i = 2
    /\ call.outcome.raised
    /\ Len(trace) > 2
    /\ DOMAIN files = {org_names[1]}
    /\ Len(returned) = 1

C25_RateLimitQueryAdvisory ==
    (call # None /\ ~call.outcome.raised) => rp_pc # "raised"

\* No organization is supplied, by the environment or by config.yml.
NoOrganizationSupplied ==
    getenv("ORGANIZATION_NAME") = "" /\ NoConfigOrganization

SecretsPresent ==
    getenv("GRAPHQL_TOKEN") # "" /\ getenv("PEPY_API_KEY") # ""

\* No fetch step ran and no provider was asked anything.
NothingRequested ==
    /\ rp_pc = "idle"
    /\ trace = <<>>
    /\ call = None
    /\ returned = <<>>
    /\ files = EmptyDict

\* C26 Configuration errors abort before any network activity: when no
\* organization is supplied, main exits with a non-zero status before any fetch
\* step runs.
C26_NoOrganizationExits ==
    (main_pc # "start" /\ NoOrganizationSupplied) =>
        main_pc = "exit1" /\ NothingRequested

\* C26 (amended) With both secrets present and no organization supplied, main
\* exits with a non-zero status before any fetch step runs; with a secret
\* missing main returns before the organization is looked at, also without any
\* fetch step.
C26_NoOrganizationExitsGivenSecrets ==
    /\ (main_pc # "start" /\ SecretsPresent /\ NoOrganizationSupplied) =>
           main_pc = "exit1"
    /\ (main_pc # "start" /\ ~SecretsPresent) => main_pc = "skipped"
    /\ main_pc \in {"exit1", "skipped"} => NothingRequested
    /\ main_pc = "exit1" => NoOrganizationSupplied

\* Both secrets are set, config.yml has an empty organization list and the
\* environment names none: main has exited with status 1.
C26_Witness ==
    /\ main_pc = "exit1"
    /\ SecretsPresent
    /\ "organization" \in DOMAIN yaml_config
    /\ NothingRequested

\* The Config main builds for the organization of the current iteration.
ConfigOfRun ==
    Config(IF getenv("ORGANIZATION_NAME") # "" THEN getenv("ORGANIZATION_NAME")
           ELSE org_names[org_i],
           Get(yaml_config, "includeForks", FALSE),
           Get(yaml_config, "includeArchived", FALSE),
           SinceOf(Get(yaml_config, "since", "")))

\* C27 The Config is never mutated: from its construction to the end of the
\* run no step changes a field of it, so every step of the run is given the
\* values main built.
C27_ConfigNeverMutated ==
    /\ [](main_pc \in {"pipeline", "raised"} => run_config = ConfigOfRun)
    /\ [][main_pc = "pipeline" => run_config' = run_config]_vars

\* The last step of a run that was configured with forks excluded has
\* returned, and the Config still says so.
C27_Witness ==
    /\ main_pc = "pipeline"
    /\ rp_pc = "returned"
    /\ trace = MainFetchers
    /\ ~run_config.include_forks
    /\ run_config.organization = "org"

(***************************************************************************)
(* Further properties of _fetch_all_contributors                           *)
(***************************************************************************)

\* A response that is a permanent error: status 404, or a body that is no
\* JSON text.
PermanentError(resp) ==
    \/ resp.status = 404
    \/ resp.data # None /\ ~json_loads(resp.data).ok

\* C23 Permanent per-unit errors become defaults: the poller does not raise,
\* and a unit whose answer was a permanent error (404, or a payload that does
\* not parse) has the value 0.
C23_PermanentErrorsBecomeDefaults ==
    /\ fc_pc # "raised"
    /\ \A u \in Requested : PermanentError(last[u]) => ResolvedTo(u, 0)

\* The retry rounds begun so far.
Rounds ==
    waited \div CONTRIBUTOR_RETRY_SLEEP_SECONDS

\* The place of a unit in the list the caller supplied.
PlaceOf(u) ==
    CHOOSE i \in DOMAIN repos : repos[i] = u

\* The batch of a retry round: pending units in the caller's order, each
\* requested once in every round before this one; in a round, the units before
\* idx have been requested once more and the others not yet.
BatchInOrder ==
    /\ \A i, j \in DOMAIN pending_repos :
           i < j => PlaceOf(pending_repos[i]) < PlaceOf(pending_repos[j])
    /\ fc_pc = "wait" =>
           /\ Rounds = MAX_CONTRIBUTOR_RETRIES - retries_remaining
           /\ \A i \in DOMAIN pending_repos :
                  /\ polls[pending_repos[i]] = 1 + Rounds
                  /\ last[pending_repos[i]].status = ACCEPTED
    /\ fc_pc = "retry" =>
           /\ Rounds = MAX_CONTRIBUTOR_RETRIES - retries_remaining + 1
           /\ \A i \in DOMAIN pending_repos :
                  polls[pending_repos[i]] = IF i < idx THEN 1 + Rounds ELSE Rounds
           /\ \A i \in DOMAIN still_pending :
                  /\ InSeq(still_pending[i], pending_repos)
                  /\ last[still_pending[i]].status = ACCEPTED
    /\ fc_pc = "initial" => waited = 0
    /\ (fc_pc = "done" /\ \A u \in Supplied : first[u].status # ACCEPTED) =>
           /\ waited = 0
           /\ \A u \in Supplied : polls[u] = 1

\* A unit that has its value is not requested again and keeps the value.
ResolvedIsFinal ==
    \A u \in DOMAIN contributors_map :
        /\ contributors_map'[u] = contributors_map[u]
        /\ polls'[u] = polls[u]

\* C30 Poller retry round: each retry round sleeps once for the whole batch
\* and then requests the units still pending, once each, in the caller's
\* order; a resolved unit is never requested again and keeps its value; when
\* no unit is pending after the first pass there is no sleep and no request.
C30_RetryRound ==
    []BatchInOrder /\ [][ResolvedIsFinal]_vars

\* The second retry round is under way for two pending units of three: the
\* first of them has been requested a third time, the other not yet, and the
\* unit resolved in the first pass was requested once.
C30_Witness ==
    /\ fc_pc = "retry"
    /\ Len(repos) = 3
    /\ Rounds = 2
    /\ Len(pending_repos) = 2
    /\ idx = 2
    /\ polls[pending_repos[1]] = 3
    /\ polls[pending_repos[2]] = 2
    /\ \E u \in DOMAIN contributors_map : polls[u] = 1 /\ contributors_map[u] > 0

(***************************************************************************)
(* Defaults of a record                                                    *)
(***************************************************************************)

\* The node of the listing that carries the name.
NodeNamed(pages, name) ==
    CHOOSE n \in {AllNodes(pages)[i] : i \in DOMAIN AllNodes(pages)} :
        n # None /\ n.name = name

\* The provider gave no license for the node.
NoLicense(n) ==
    Get(n, "licenseInfo", None) = None

\* C29 Defaults, not sentinels: a field for which the provider supplies no
\* data (no license, no topics, a missing count) has, in the record the
\* discovery step writes, the default value of a new record.
C29_DefaultsNotSentinels ==
    Returned("add_repositories_to_result") =>
        \A name \in EligibleNames(call.input.pages, run_config) :
            LET n == NodeNamed(call.input.pages, name)
            IN /\ NoLicense(n) => After[name].license_name = RepositoryResult.license_name
               /\ "repositoryTopics" \notin DOMAIN n =>
                      After[name].topics = RepositoryResult.topics
               /\ "forkCount" \notin DOMAIN n =>
                      After[name].forks_count = RepositoryResult.forks_count
               /\ "stargazerCount" \notin DOMAIN n =>
                      After[name].stars_count = RepositoryResult.stars_count

(***************************************************************************)
(* fetchers/utils.py: load_excluded_repos behind lru_cache(maxsize=1)      *)
(***************************************************************************)

\* The calls of one process.
MaxLoads ==
    4

\* The argument tuples load_excluded_repos is called with: none (as
\* should_exclude_repo calls it) or a directory.
NoArguments ==
    <<>>

ArgumentTuples ==
    {NoArguments, <<"other">>}

\* if config_dir is None: path = Path(__file__).parent.parent
DirectoryOf(args) ==
    IF args = NoArguments THEN "package" ELSE args[1]

\* tuple(json.load(f)) if excluded_file.exists() else ()
ReadExcludedFile(dir) ==
    Get(disk, dir, <<>>)

\* The cache has an entry for the arguments.
CacheHit(args) ==
    lru # <<>> /\ lru[1].args = args

\* Mutant: the function is not cached.
CachedCallAlwaysMissing(args) ==
    /\ Len(reads) < MaxLoads
    /\ reads' = Append(reads, DirectoryOf(args))
    /\ lru' = <<[args |-> args, value |-> ReadExcludedFile(DirectoryOf(args))]>>

\* A call of the cached function: a hit returns the stored value; a miss runs
\* the function body, which reads the file, and stores the value in place of
\* the entry the cache held (maxsize=1).
CachedCall(args) ==
    IF CacheHit(args)
    THEN UNCHANGED <<lru, reads>>
    ELSE /\ Len(reads) < MaxLoads
         /\ reads' = Append(reads, DirectoryOf(args))
         /\ lru' = <<[args |-> args, value |-> ReadExcludedFile(DirectoryOf(args))]>>

\* load_excluded_repos(config_dir) called from outside the filter.
LoadExcludedRepos(args) ==
    /\ CachedCall(args)
    /\ IF args = NoArguments
       THEN /\ excluded' = lru'[1].value
            /\ first_set' = IF first_set = None THEN [value |-> lru'[1].value]
                            ELSE first_set
       ELSE UNCHANGED <<excluded, first_set>>
    /\ UNCHANGED <<disk, f_node, f_decision, run_config, provider, fetchers, rp_pc,
                   step, rp_result, trace, call, returned, main_pc, env,
                   yaml_config, org_names, org_i, files, PaginateVars, PollerVars,
                   MetricsVars, PepyVars>>

\* should_exclude_repo(repo_name, config): excluded = load_excluded_repos(),
\* then the test (utils.py:45-48).
ShouldExcludeRepo(repo) ==
    /\ CachedCall(NoArguments)
    /\ excluded' = lru'[1].value
    /\ first_set' = IF first_set = None THEN [value |-> lru'[1].value]
                    ELSE first_set
    /\ f_node' = repo
    /\ UNCHANGED run_config
    /\ f_decision' = [should_exclude_repo |->
                          should_exclude_repo(repo.name, run_config)']
    /\ UNCHANGED <<disk, provider, fetchers, rp_pc, step, rp_result, trace, call,
                   returned, main_pc, env, yaml_config, org_names, org_i, files,
                   PaginateVars, PollerVars,
                   MetricsVars, PepyVars>>

\* excluded_repos.json of a directory is written, replaced or removed while
\* the process runs.
EditExcludedFile(dir, names) ==
    /\ Get(disk, dir, <<>>) # names
    /\ disk' = Put(disk, dir, names)
    /\ UNCHANGED <<lru, reads, first_set, FilterVars, RunVars, PaginateVars,
                   PollerVars, MetricsVars, PepyVars>>

\* A process starts: nothing is cached.
CacheInit ==
    /\ disk \in [{"package", "other"} -> ExclusionSets]
    /\ lru = <<>>
    /\ reads = <<>>
    /\ first_set = None
    /\ f_node = None
    /\ f_decision = EmptyDict
    /\ run_config \in {Config("org", FALSE, FALSE, "")}
    /\ excluded = <<>>
    /\ PipelineIdle
    /\ PaginateIdle
    /\ PollerIdle
    /\ MetricsIdle
    /\ PepyIdle

CacheNext ==
    \/ \E args \in ArgumentTuples : LoadExcludedRepos(args)
    \/ \E repo \in {RepoA, RepoListed} : ShouldExcludeRepo(repo)
    \/ \E dir \in {"package", "other"}, names \in ExclusionSets :
           EditExcludedFile(dir, names)

CacheSpec ==
    CacheInit /\ [][CacheNext]_vars

\* C28 The exclusion list is loaded once per process: after the first load no
\* call reads the list again, and every call without argument returns the set
\* the first one returned.
C28_LoadedOncePerProcess ==
    /\ Cardinality({i \in DOMAIN reads : reads[i] = "package"}) <= 1
    /\ first_set # None => excluded = first_set.value

\* Every call so far was made without argument, or for the package directory.
OnlyDefaultCalls ==
    \A i \in DOMAIN reads : reads[i] = "package"

\* C28 (amended) As long as load_excluded_repos is called without argument
\* only, as should_exclude_repo calls it, the list is read once and every call
\* and every eligibility decision uses the set read then, whatever happens to
\* the file. The cache holds one entry, for the arguments of the last read: a
\* list is read again only after a call with other arguments has taken the
\* entry.
C28_LoadedOnceWithoutOtherArguments ==
    /\ Len(lru) <= 1
    /\ OnlyDefaultCalls =>
           /\ Len(reads) <= 1
           /\ first_set # None =>
                  /\ reads = <<"package">>
                  /\ excluded = first_set.value
                  /\ lru[1].value = first_set.value
    /\ \A i \in DOMAIN reads : i > 1 => reads[i] # reads[i - 1]
    /\ (f_node # None /\ OnlyDefaultCalls) =>
           f_decision.should_exclude_repo =
               (\E i \in DOMAIN first_set.value : first_set.value[i] = f_node.name)

\* The list was read once and named "b-excluded"; the file was then emptied,
\* and a later should_exclude_repo still excludes "b-excluded".
C28_Witness ==
    /\ reads = <<"package">>
    /\ first_set # None
    /\ first_set.value = <<"b-excluded">>
    /\ Get(disk, "package", <<>>) = <<>>
    /\ f_node = RepoListed
    /\ f_decision = [should_exclude_repo |-> TRUE]

(***************************************************************************)
(* fetchers/issues.py: what the provider holds for the issue metrics.      *)
(* Times are milliseconds; an issue node carries createdAt.                *)
(***************************************************************************)

\* datetime.now(timezone.utc) of _fetch_issue_metrics_for_repo
now ==
    1000

IssueCreatedAt(t) ==
    [createdAt |-> t]

\* The pages of the open and of the closed issues of a repository: "a" has
\* two pages of open issues and one of closed ones, "c" has no open issue and
\* two pages of closed ones, any other repository has no issue.
AgeIssues(repo_name) ==
    IF repo_name = "a"
    THEN [open |-> << <<IssueCreatedAt(900), None>>, <<IssueCreatedAt(700)>> >>,
          closed |-> << <<IssueCreatedAt(400)>> >>]
    ELSE IF repo_name = "c"
    THEN [open |-> << <<>> >>,
          closed |-> << <<IssueCreatedAt(800)>>, <<IssueCreatedAt(600)>> >>]
    ELSE [open |-> << <<>> >>, closed |-> << <<>> >>]

\* issues(first: 100, after: $cursor) { pageInfo nodes }: the page after the
\* cursor; the endCursor of page k is k.
ConnectionPage(pages, after) ==
    [nodes |-> pages[after + 1],
     pageInfo |-> [hasNextPage |-> after + 1 < Len(pages), endCursor |-> after + 1]]

\* The data of the age query for the variables of a request.
AgeResponse(repo_name, variables) ==
    [repository |->
        [openIssues |-> ConnectionPage(AgeIssues(repo_name).open,
                                       variables.openCursor),
         closedIssues |-> ConnectionPage(AgeIssues(repo_name).closed,
                                         variables.closedCursor)]]

\* A login that stands for `None`.
NoLogin ==
    ""

Comment(login, typename, isMinimized, createdAt) ==
    [author |-> [login |-> login, __typename |-> typename],
     isMinimized |-> isMinimized, createdAt |-> createdAt]

\* The pages of the response-time query: for "a" an issue whose first valid
\* comment comes after one of the author, one of a bot and a minimized one, an
\* issue without author whose first comment is null, and on a second page an
\* issue without comments; no issue for any other repository.
ResponseIssues(repo_name) ==
    IF repo_name = "a"
    THEN << <<[author |-> [login |-> "u"], createdAt |-> 100,
               comments |-> [nodes |->
                   <<Comment("u", "User", FALSE, 110),
                     Comment("b", "Bot", FALSE, 120),
                     Comment("v", "User", TRUE, 130),
                     Comment("v", "User", FALSE, 160),
                     Comment("w", "User", FALSE, 170)>>]],
              None,
              [author |-> None, createdAt |-> 200,
               comments |-> [nodes |-> <<None, Comment("w", "User", FALSE, 220)>>]]>>,
            <<[author |-> [login |-> "u"], createdAt |-> 300,
               comments |-> [nodes |-> <<>>]]>> >>
    ELSE << <<>> >>

(***************************************************************************)
(* fetchers/issues.py: _calculate_ages and the response times              *)
(***************************************************************************)

RECURSIVE SumSeq(_)
SumSeq(seq) ==
    IF seq = <<>> THEN 0 ELSE Head(seq) + SumSeq(Tail(seq))

RECURSIVE Sorted(_)
Sorted(seq) ==
    IF seq = <<>> THEN <<>>
    ELSE LET i == CHOOSE i \in DOMAIN seq : \A j \in DOMAIN seq : seq[i] <= seq[j]
         IN <<seq[i]>> \o Sorted(SubSeq(seq, 1, i - 1) \o SubSeq(seq, i + 1, Len(seq)))

\* sum(ages) / len(ages); the data are chosen so that the division is exact.
average(seq) ==
    SumSeq(seq) \div Len(seq)

\* statistics.median
median(seq) ==
    LET sorted == Sorted(seq)
        n == Len(seq)
    IN IF n % 2 = 1 THEN sorted[(n + 1) \div 2]
       ELSE (sorted[n \div 2] + sorted[n \div 2 + 1]) \div 2

\* _calculate_ages(issues, now) (issues.py:127-148)
calculate_ages(issues) ==
    IF issues = <<>> THEN [average_age |-> 0, median_age |-> 0]
    ELSE LET ages == [i \in DOMAIN issues |-> now - issues[i].createdAt]
         IN [average_age |-> average(ages), median_age |-> median(ages)]

\* [n for n in nodes if n is not None]
NotNone(nodes) ==
    SelectSeq(nodes, LAMBDA n : n # None)

\* The first comment that is not null, has an author other than the issue's,
\* is not from a bot and is not minimized (issues.py:322-333); None if there
\* is none.
RECURSIVE FirstValid(_, _)
FirstValid(comments, author_login) ==
    IF comments = <<>> THEN None
    ELSE LET c == Head(comments)
         IN IF /\ c # None
               /\ Get(c, "author", None) # None
               /\ c.author.login # author_login
               /\ c.author.__typename # "Bot"
               /\ ~Get(c, "isMinimized", FALSE)
            THEN c
            ELSE FirstValid(Tail(comments), author_login)

\* for issue in all_issues: ... response_times.append(response_time)
\* (issues.py:313-343)
RECURSIVE ResponseTimes(_)
ResponseTimes(all_issues) ==
    IF all_issues = <<>> THEN <<>>
    ELSE LET issue == Head(all_issues)
             author_login == IF Get(issue, "author", None) # None
                             THEN issue.author.login ELSE NoLogin
             first_valid == FirstValid(Get(Get(issue, "comments", EmptyDict),
                                           "nodes", <<>>), author_login)
         IN (IF first_valid # None
             THEN <<first_valid.createdAt - issue.createdAt>>
             ELSE <<>>) \o ResponseTimes(Tail(all_issues))

\* _fetch_response_time_for_repo, given the pages graphql_paginate yielded
\* (issues.py:295-351).
response_time_for_repo(pages) ==
    LET all_issues == NotNone(AllNodes(pages))
        response_times == ResponseTimes(all_issues)
    IN IF all_issues = <<>> \/ response_times = <<>>
       THEN [average |-> 0, median |-> 0]
       ELSE [average |-> average(response_times), median |-> median(response_times)]

(***************************************************************************)
(* fetchers/issues.py: add_issue_metrics_data, request by request          *)
(***************************************************************************)

MetricsFrame ==
    UNCHANGED <<FilterVars, RunVars, CacheVars, PepyVars, PaginateVars,
                PollerVars>>

\* The repository of the running iteration.
CurrentRepo ==
    repo_names[m_i]

\* The cursor variables of the next age request (issues.py:207-210).
AgeVariables ==
    [openCursor |-> IF open_has_next THEN open_cursor ELSE NullCursor,
     closedCursor |-> IF closed_has_next THEN closed_cursor ELSE NullCursor]

\* A loop that stops as soon as one of the two connections is exhausted.
AgeRequestDueWhileBoth ==
    /\ m_pc = "ages"
    /\ m_i <= Len(repo_names)
    /\ open_has_next /\ closed_has_next

\* while open_has_next or closed_has_next: data = client.graphql(...)
AgeRequestDue ==
    /\ m_pc = "ages"
    /\ m_i <= Len(repo_names)
    /\ open_has_next \/ closed_has_next

\* The request is answered with data: both connections are processed
\* (issues.py:220-236).
AgePage ==
    /\ AgeRequestDue
    /\ LET data == AgeResponse(CurrentRepo, AgeVariables)
           open_data == data.repository.openIssues
           closed_data == data.repository.closedIssues
       IN /\ age_requests' = Append(age_requests, AgeVariables)
          /\ IF open_has_next
             THEN /\ all_open_issues' = all_open_issues \o NotNone(open_data.nodes)
                  /\ open_has_next' = open_data.pageInfo.hasNextPage
                  /\ open_cursor' = open_data.pageInfo.endCursor
             ELSE UNCHANGED <<all_open_issues, open_has_next, open_cursor>>
          /\ IF closed_has_next
             THEN /\ all_closed_issues' =
                        all_closed_issues \o NotNone(closed_data.nodes)
                  /\ closed_has_next' = closed_data.pageInfo.hasNextPage
                  /\ closed_cursor' = closed_data.pageInfo.endCursor
             ELSE UNCHANGED <<all_closed_issues, closed_has_next, closed_cursor>>
    /\ UNCHANGED <<m_pc, m_repositories, repo_names, m_i, m_log>>
    /\ MetricsFrame

\* What _fetch_issue_metrics_for_repo returns (issues.py:238-247).
Ages ==
    [open_average_age |-> calculate_ages(all_open_issues).average_age,
     open_median_age |-> calculate_ages(all_open_issues).median_age,
     closed_average_age |-> calculate_ages(all_closed_issues).average_age,
     closed_median_age |-> calculate_ages(all_closed_issues).median_age]

\* The loop of the age query is left: the ages of the issues collected are
\* written into the record (issues.py:375-387).
WriteAges(how) ==
    /\ m_repositories' =
           [m_repositories EXCEPT ![CurrentRepo] =
               [@ EXCEPT !.open_issues_average_age = Ages.open_average_age,
                         !.open_issues_median_age = Ages.open_median_age,
                         !.closed_issues_average_age = Ages.closed_average_age,
                         !.closed_issues_median_age = Ages.closed_median_age]]
    /\ m_log' = Put(m_log, CurrentRepo,
                    [ages |-> how,
                     collected |-> Len(all_open_issues) + Len(all_closed_issues),
                     response |-> "none"])
    /\ m_pc' = "response"
    /\ UNCHANGED <<repo_names, m_i, open_cursor, closed_cursor, open_has_next,
                   closed_has_next, all_open_issues, all_closed_issues>>
    /\ MetricsFrame

\* Both connections are exhausted.
AgeLoopEnd ==
    /\ m_pc = "ages"
    /\ m_i <= Len(repo_names)
    /\ ~open_has_next /\ ~closed_has_next
    /\ UNCHANGED age_requests
    /\ WriteAges("complete")

\* The request raises a GithubException, or RateLimitExceededException, which
\* is one: `except GithubException: break` (issues.py:213-215).
AgeException(how) ==
    /\ AgeRequestDue
    /\ age_requests' = Append(age_requests, AgeVariables)
    /\ WriteAges(how)

\* The data carry no repository: break (issues.py:217-218).
AgeNoRepository ==
    /\ AgeRequestDue
    /\ age_requests' = Append(age_requests, AgeVariables)
    /\ WriteAges("norepository")

\* The next iteration of `for repo_name in repo_names` starts with the locals
\* of _fetch_issue_metrics_for_repo (issues.py:194-200).
NextRepository ==
    /\ m_i' = m_i + 1
    /\ open_cursor' = NullCursor
    /\ closed_cursor' = NullCursor
    /\ open_has_next' = TRUE
    /\ closed_has_next' = TRUE
    /\ all_open_issues' = <<>>
    /\ all_closed_issues' = <<>>
    /\ age_requests' = <<>>

\* _fetch_response_time_for_repo returns: graphql_paginate yielded every page
\* (rate-limit signals are retried inside it); the two response fields are
\* written (issues.py:390-397).
ResponseTimeReturns ==
    /\ m_pc = "response"
    /\ LET response == response_time_for_repo(ResponseIssues(CurrentRepo))
       IN m_repositories' =
              [m_repositories EXCEPT ![CurrentRepo] =
                  [@ EXCEPT !.issues_response_average_age = response.average,
                            !.issues_response_median_age = response.median]]
    /\ m_log' = [m_log EXCEPT ![CurrentRepo].response = "complete"]
    /\ m_pc' = "ages"
    /\ NextRepository
    /\ UNCHANGED repo_names
    /\ MetricsFrame

\* graphql_paginate raises: a request raised an exception other than the
\* rate-limit signal. Nothing catches it.
ResponseTimeRaises(how) ==
    /\ m_pc = "response"
    /\ m_log' = [m_log EXCEPT ![CurrentRepo].response = how]
    /\ m_pc' = "raised"
    /\ UNCHANGED <<m_repositories, repo_names, m_i, open_cursor, closed_cursor,
                   open_has_next, closed_has_next, all_open_issues,
                   all_closed_issues, age_requests>>
    /\ MetricsFrame

\* The data of a query whose repository the provider answers with null.
NullRepositoryResult ==
    [repository |-> None]

\* path_to_connection of the response-time query (issues.py:302)
ResponseTimePath ==
    <<"repository", "issues">>

\* The first request of the response-time query is answered with a null
\* repository. graphql_paginate walks to the connection before it yields
\* (github_client.py:86-91): if the walk fails the exception leaves
\* _fetch_response_time_for_repo and add_issue_metrics_data; otherwise the
\* result is yielded, `if not page_result.get("repository"): break` leaves
\* the loop with no issue and {"average": 0.0, "median": 0.0} is written
\* (issues.py:304-310, 390-397).
ResponseTimeNullRepository ==
    /\ m_pc = "response"
    /\ m_log' = [m_log EXCEPT ![CurrentRepo].response = "nullrepository"]
    /\ IF Navigate(NullRepositoryResult, ResponseTimePath).ok
       THEN /\ m_repositories' =
                   [m_repositories EXCEPT ![CurrentRepo] =
                       [@ EXCEPT !.issues_response_average_age =
                                     response_time_for_repo(<<>>).average,
                                 !.issues_response_median_age =
                                     response_time_for_repo(<<>>).median]]
            /\ m_pc' = "ages"
            /\ NextRepository
       ELSE /\ m_pc' = "raised"
            /\ UNCHANGED <<m_repositories, m_i, open_cursor, closed_cursor,
                           open_has_next, closed_has_next, all_open_issues,
                           all_closed_issues, age_requests>>
    /\ UNCHANGED repo_names
    /\ MetricsFrame

\* return result (issues.py:399)
MetricsReturn ==
    /\ m_pc = "ages"
    /\ m_i > Len(repo_names)
    /\ m_pc' = "done"
    /\ UNCHANGED <<m_repositories, repo_names, m_i, open_cursor, closed_cursor,
                   open_has_next, closed_has_next, all_open_issues,
                   all_closed_issues, age_requests, m_log>>
    /\ MetricsFrame

\* The keys of result.repositories in insertion order.
KeyOrders ==
    {<<>>, <<"a">>, <<"c">>, <<"a", "c">>, <<"c", "a">>, <<"a", "forked", "c">>}

\* add_issue_metrics_data is called; repo_names = list(result.repositories.keys())
\* (issues.py:367).
MetricsInit ==
    /\ repo_names \in KeyOrders
    /\ m_repositories =
           [name \in {repo_names[i] : i \in DOMAIN repo_names} |->
               [RepositoryResult EXCEPT !.repository_name = name]]
    /\ m_pc = "ages"
    /\ m_i = 1
    /\ open_cursor = NullCursor
    /\ closed_cursor = NullCursor
    /\ open_has_next = TRUE
    /\ closed_has_next = TRUE
    /\ all_open_issues = <<>>
    /\ all_closed_issues = <<>>
    /\ age_requests = <<>>
    /\ m_log = EmptyDict
    /\ CacheIdle
    /\ PepyIdle
    /\ FilterIdle
    /\ RunIdle
    /\ PaginateIdle
    /\ PollerIdle

MetricsNext ==
    \/ AgePage
    \/ AgeLoopEnd
    \/ \E how \in {"exception", "ratelimit"} : AgeException(how)
    \/ AgeNoRepository
    \/ ResponseTimeReturns
    \/ \E how \in {"error"} : ResponseTimeRaises(how)
    \/ ResponseTimeNullRepository
    \/ MetricsReturn

MetricsSpec ==
    MetricsInit /\ [][MetricsNext]_vars

(***************************************************************************)
(* Properties of add_issue_metrics_data                                    *)
(***************************************************************************)

\* The ages of all the issues the provider holds for a repository.
FullAges(repo_name) ==
    LET open == NotNone(AllNodes(AgeIssues(repo_name).open))
        closed == NotNone(AllNodes(AgeIssues(repo_name).closed))
    IN [open_average_age |-> calculate_ages(open).average_age,
        open_median_age |-> calculate_ages(open).median_age,
        closed_average_age |-> calculate_ages(closed).average_age,
        closed_median_age |-> calculate_ages(closed).median_age]

\* The four age fields of a record.
AgeFields(record) ==
    [open_average_age |-> record.open_issues_average_age,
     open_median_age |-> record.open_issues_median_age,
     closed_average_age |-> record.closed_issues_average_age,
     closed_median_age |-> record.closed_issues_median_age]

DefaultAges ==
    AgeFields(RepositoryResult)

\* C22 Per-repository failure isolation: a failing query of one repository
\* does not abort add_issue_metrics_data, and the age fields of a repository
\* whose age query failed are left at their defaults.
C22_FailureIsolated ==
    /\ m_pc # "raised"
    /\ \A repo_name \in DOMAIN m_log :
           m_log[repo_name].ages \in {"exception", "ratelimit"} =>
               AgeFields(m_repositories[repo_name]) = DefaultAges

\* C24 Transient errors stay inside the component: a rate-limit signal during
\* the age query does not truncate the data, so the age fields written are
\* those of all the issues of the repository.
C24_RateLimitStaysInside ==
    \A repo_name \in DOMAIN m_log :
        m_log[repo_name].ages \in {"complete", "ratelimit"} =>
            AgeFields(m_repositories[repo_name]) = FullAges(repo_name)

\* The number of pages of the longer of the two connections of a repository.
RequestsNeeded(repo_name) ==
    LET o == Len(AgeIssues(repo_name).open)
        c == Len(AgeIssues(repo_name).closed)
    IN IF o >= c THEN o ELSE c

\* The k-th request of the running repository carries, for a connection with
\* these pages, the endCursor of the page its previous request was answered
\* with, and no cursor once the connection is exhausted or on the first
\* request.
OwnCursor(pages, cursors) ==
    \A k \in DOMAIN cursors :
        cursors[k] = IF k > 1 /\ k - 1 < Len(pages)
                  THEN ConnectionPage(pages, cursors[k - 1]).pageInfo.endCursor
                  ELSE NullCursor

\* C31 Dual-cursor pagination of issue ages: the loop goes on while one of
\* the two connections has pages left; each request carries, for each
\* connection, the endCursor of that connection's previous page; and when
\* the loop ends without an error, every non-null node of every page of each
\* connection has been collected exactly once, whichever connection is the
\* longer one.
C31_DualCursorPagination ==
    (m_pc \in {"ages", "response"} /\ m_i <= Len(repo_names)) =>
        /\ OwnCursor(AgeIssues(CurrentRepo).open,
                     [k \in DOMAIN age_requests |-> age_requests[k].openCursor])
        /\ OwnCursor(AgeIssues(CurrentRepo).closed,
                     [k \in DOMAIN age_requests |-> age_requests[k].closedCursor])
        /\ (m_pc = "ages" /\ Len(age_requests) < RequestsNeeded(CurrentRepo))
               => AgeRequestDue
        /\ (m_pc = "response" /\ m_log[CurrentRepo].ages = "complete") =>
               /\ Len(age_requests) = RequestsNeeded(CurrentRepo)
               /\ all_open_issues =
                      NotNone(AllNodes(AgeIssues(CurrentRepo).open))
               /\ all_closed_issues =
                      NotNone(AllNodes(AgeIssues(CurrentRepo).closed))

\* The ages of "a", whose open connection is the longer one, were collected
\* completely, and so are now those of "c", whose closed connection is the
\* longer one.
C31_Witness ==
    /\ m_pc = "response"
    /\ repo_names = <<"a", "c">>
    /\ m_i = 2
    /\ m_log["a"].ages = "complete"
    /\ m_log["c"].ages = "complete"
    /\ Len(age_requests) = 2
    /\ age_requests[2] = [openCursor |-> NullCursor, closedCursor |-> 1]
    /\ all_closed_issues = <<IssueCreatedAt(800), IssueCreatedAt(600)>>

\* C32 Null repository in the response-time query: when the provider answers
\* the response-time query of a repository with a null repository, nothing
\* is raised, the two response fields of the repository are 0, and
\* add_issue_metrics_data goes on with the next repository.
C32_NullRepositoryReturnsZero ==
    \A repo_name \in DOMAIN m_log :
        m_log[repo_name].response = "nullrepository" =>
            /\ m_pc # "raised"
            /\ m_repositories[repo_name].issues_response_average_age = 0
            /\ m_repositories[repo_name].issues_response_median_age = 0
            /\ m_pc = "ages" => m_i > CHOOSE i \in DOMAIN repo_names :
                                          repo_names[i] = repo_name

(***************************************************************************)
(* fetchers/downloads_pepy.py: _query_projects_for_repositories, request   *)
(* by request                                                              *)
(***************************************************************************)

PEPY_RATE_LIMIT_REQUESTS ==
    8

PEPY_RATE_LIMIT_SLEEP_SECONDS ==
    80

PEPY_MAX_RETRIES ==
    2

NOT_FOUND ==
    404

TOO_MANY_REQUESTS ==
    429

\* The length of the list of repositories handed to the function.
MaxPepyRepos ==
    9

\* Names of repositories, as many as a list may hold.
PepyRepoNames ==
    <<"a", "b", "c", "d", "e", "f", "g", "h", "i", "j", "k", "l">>

\* What _fetch_downloads may do: raise a requests.RequestException, or
\* return a response with a status and a body; `json` is what
\* response.json() returns when the body can be decoded (`decodable`), and
\* response.json() raises a RequestException when it cannot.
PepyAnswers ==
    {[raised |-> TRUE],
     [raised |-> FALSE, status_code |-> NOT_FOUND, decodable |-> TRUE,
      json |-> EmptyDict],
     [raised |-> FALSE, status_code |-> TOO_MANY_REQUESTS, decodable |-> TRUE,
      json |-> EmptyDict],
     [raised |-> FALSE, status_code |-> OK, decodable |-> TRUE,
      json |-> PepyProject],
     [raised |-> FALSE, status_code |-> OK, decodable |-> TRUE,
      json |-> EmptyDict],
     [raised |-> FALSE, status_code |-> OK, decodable |-> FALSE,
      json |-> EmptyDict]}

PepyFrame ==
    UNCHANGED <<FilterVars, RunVars, CacheVars, MetricsVars, PaginateVars,
                PollerVars>>

\* for repo in repositories: repo_name = repo["name"];
\* retries = PEPY_MAX_RETRIES (downloads_pepy.py:55-57)
PepyFor ==
    /\ p_pc = "for"
    /\ p_i < Len(p_repositories)
    /\ p_i' = p_i + 1
    /\ retries' = PEPY_MAX_RETRIES
    /\ repo_requests' = 0
    /\ p_pc' = "while"
    /\ p_event' = "next"
    /\ p_slept' = 0
    /\ UNCHANGED <<p_repositories, num_requests, project_results, since_sleep>>
    /\ PepyFrame

\* while retries > 0 is false: the repository is left without a result.
PepyWhileEnd ==
    /\ p_pc = "while"
    /\ retries = 0
    /\ p_pc' = "for"
    /\ p_event' = "exhausted"
    /\ p_slept' = 0
    /\ UNCHANGED <<p_repositories, p_i, retries, num_requests, project_results,
                   repo_requests, since_sleep>>
    /\ PepyFrame

\* Mutant: the counter is not looked at before a request.
PepyThrottleNeverSleeping ==
    /\ p_pc = "while"
    /\ retries > 0
    /\ p_slept' = 0
    /\ p_event' = "nothrottle"
    /\ p_pc' = "fetch"
    /\ UNCHANGED <<p_repositories, p_i, retries, project_results, repo_requests,
                   num_requests, since_sleep>>
    /\ PepyFrame

\* while retries > 0: if num_requests >= PEPY_RATE_LIMIT_REQUESTS: sleep and
\* num_requests = 0 (downloads_pepy.py:59-72)
PepyThrottle ==
    /\ p_pc = "while"
    /\ retries > 0
    /\ IF num_requests >= PEPY_RATE_LIMIT_REQUESTS
       THEN /\ p_slept' = PEPY_RATE_LIMIT_SLEEP_SECONDS
            /\ num_requests' = 0
            /\ since_sleep' = 0
            /\ p_event' = "throttle"
       ELSE /\ p_slept' = 0
            /\ p_event' = "nothrottle"
            /\ UNCHANGED <<num_requests, since_sleep>>
    /\ p_pc' = "fetch"
    /\ UNCHANGED <<p_repositories, p_i, retries, project_results, repo_requests>>
    /\ PepyFrame

\* Mutant: a 429 or an exception does not consume a retry.
PepyFetchNotCounting(answer) ==
    /\ p_pc = "fetch"
    /\ repo_requests' = repo_requests + 1
    /\ since_sleep' = since_sleep + 1
    /\ p_slept' = 0
    /\ IF answer.raised \/ answer.status_code = TOO_MANY_REQUESTS
          \/ (answer.status_code # NOT_FOUND /\ ~answer.decodable)
       THEN /\ num_requests' = 0
            /\ p_pc' = "sleep"
            /\ p_event' = "ratelimited"
            /\ UNCHANGED <<retries, project_results>>
       ELSE /\ num_requests' = num_requests + 1
            /\ p_pc' = "for"
            /\ p_event' = "notfound"
            /\ UNCHANGED <<retries, project_results>>
    /\ UNCHANGED <<p_repositories, p_i>>
    /\ PepyFrame

\* num_requests += 1; response = _fetch_downloads(repo_name, api_key) and
\* what follows the answer up to the sleep (downloads_pepy.py:74-106): a 404
\* breaks; a 429 takes a retry and resets the counter; any other response
\* is decoded and, if not empty, appended, then break; a RequestException,
\* of the request or of response.json(), takes a retry and resets the
\* counter.
PepyFetch(answer) ==
    /\ p_pc = "fetch"
    /\ repo_requests' = repo_requests + 1
    /\ since_sleep' = since_sleep + 1
    /\ p_slept' = 0
    /\ IF answer.raised
       THEN /\ retries' = retries - 1
            /\ num_requests' = 0
            /\ p_pc' = "sleep"
            /\ p_event' = "exception"
            /\ UNCHANGED project_results
       ELSE IF answer.status_code = NOT_FOUND
       THEN /\ num_requests' = num_requests + 1
            /\ p_pc' = "for"
            /\ p_event' = "notfound"
            /\ UNCHANGED <<retries, project_results>>
       ELSE IF answer.status_code = TOO_MANY_REQUESTS
       THEN /\ retries' = retries - 1
            /\ num_requests' = 0
            /\ p_pc' = "sleep"
            /\ p_event' = "ratelimited"
            /\ UNCHANGED project_results
       ELSE IF ~answer.decodable
       THEN /\ retries' = retries - 1
            /\ num_requests' = 0
            /\ p_pc' = "sleep"
            /\ p_event' = "exception"
            /\ UNCHANGED project_results
       ELSE /\ num_requests' = num_requests + 1
            /\ project_results' =
                   IF answer.json # EmptyDict
                   THEN Append(project_results,
                               [repo_name |-> p_repositories[p_i].name,
                                data |-> answer.json])
                   ELSE project_results
            /\ p_pc' = "for"
            /\ p_event' = IF answer.json # EmptyDict THEN "found" ELSE "empty"
            /\ UNCHANGED retries
    /\ UNCHANGED <<p_repositories, p_i>>
    /\ PepyFrame

\* time.sleep(PEPY_RATE_LIMIT_SLEEP_SECONDS) after a 429 or an exception
\* (downloads_pepy.py:90-91, 105-106); the loop test comes next.
PepySleep ==
    /\ p_pc = "sleep"
    /\ p_slept' = PEPY_RATE_LIMIT_SLEEP_SECONDS
    /\ since_sleep' = 0
    /\ p_pc' = "while"
    /\ p_event' = "sleep"
    /\ UNCHANGED <<p_repositories, p_i, retries, num_requests, project_results,
                   repo_requests>>
    /\ PepyFrame

\* return project_results (downloads_pepy.py:108)
PepyReturn ==
    /\ p_pc = "for"
    /\ p_i = Len(p_repositories)
    /\ p_pc' = "done"
    /\ p_event' = "return"
    /\ p_slept' = 0
    /\ UNCHANGED <<p_repositories, p_i, retries, num_requests, project_results,
                   repo_requests, since_sleep>>
    /\ PepyFrame

\* _query_projects_for_repositories is called with a list of repositories:
\* project_results = []; num_requests = 0 (downloads_pepy.py:52-53).
PepyInit ==
    /\ \E n \in {0, 1, MaxPepyRepos} :
           p_repositories = [i \in 1..n |-> [name |-> PepyRepoNames[i]]]
    /\ p_pc = "for"
    /\ p_i = 0
    /\ retries = 0
    /\ num_requests = 0
    /\ project_results = <<>>
    /\ repo_requests = 0
    /\ since_sleep = 0
    /\ p_event = "start"
    /\ p_slept = 0
    /\ CacheIdle
    /\ MetricsIdle
    /\ FilterIdle
    /\ RunIdle
    /\ PaginateIdle
    /\ PollerIdle

PepyNext ==
    \/ PepyFor
    \/ PepyWhileEnd
    \/ PepyThrottle
    \/ \E answer \in PepyAnswers : PepyFetch(answer)
    \/ PepySleep
    \/ PepyReturn

PepySpec ==
    PepyInit /\ [][PepyNext]_vars

\* The statements of the function follow one another, a sleep ends and a
\* request is answered or raises.
PepyFairSpec ==
    PepySpec /\ WF_vars(PepyNext)

(***************************************************************************)
(* Properties of _query_projects_for_repositories                          *)
(***************************************************************************)

\* The project results of the repository of the iteration.
ResultsOfCurrent ==
    SelectSeq(project_results,
              LAMBDA r : r.repo_name = p_repositories[p_i].name)

RetryBudget ==
    /\ p_pc \in {"for", "while", "fetch", "sleep", "done"}
    /\ repo_requests <= PEPY_MAX_RETRIES
    /\ p_event = "notfound" => p_pc = "for" /\ p_slept = 0
    /\ p_event \in {"ratelimited", "exception"} => p_pc = "sleep"
    /\ p_event = "exhausted" =>
           /\ repo_requests = PEPY_MAX_RETRIES
           /\ ResultsOfCurrent = <<>>

RetryStep ==
    /\ (p_pc = "fetch" /\ p_event' = "notfound") =>
           /\ retries' = retries
           /\ p_i' = p_i
           /\ project_results' = project_results
    /\ (p_pc = "fetch" /\ p_event' \in {"ratelimited", "exception"}) =>
           /\ retries' = retries - 1
           /\ project_results' = project_results
    /\ p_pc = "sleep" =>
           /\ p_slept' = PEPY_RATE_LIMIT_SLEEP_SECONDS
           /\ p_pc' = "while"
           /\ retries' = retries

\* C33 PePy retry budget: at most PEPY_MAX_RETRIES requests are issued for a
\* repository; a 404 ends the repository's attempts at once, with no retry
\* taken and no sleep; each 429 or request exception takes one retry and is
\* followed by one sleep; a repository whose retries are exhausted has no
\* entry in the results; nothing is raised and the function returns.
C33_PepyRetryBudget ==
    /\ []RetryBudget
    /\ [][RetryStep]_vars
    /\ <>(p_pc = "done")

\* The second of nine repositories has used up its retries after the first
\* one was found.
C33_Witness ==
    /\ p_event = "exhausted"
    /\ Len(p_repositories) = MaxPepyRepos
    /\ p_i = 2
    /\ Len(project_results) = 1

Throttled ==
    /\ since_sleep <= PEPY_RATE_LIMIT_REQUESTS
    /\ p_pc # "sleep" => num_requests = since_sleep

ThrottleStep ==
    /\ p_slept' # 0 =>
           /\ p_slept' = PEPY_RATE_LIMIT_SLEEP_SECONDS
           /\ num_requests' = 0
           /\ since_sleep' = 0
    /\ p_i' # p_i => num_requests' = num_requests

\* C34 PePy throttle invariant: never more than PEPY_RATE_LIMIT_REQUESTS
\* requests are issued without a sleep of PEPY_RATE_LIMIT_SLEEP_SECONDS in
\* between; every sleep leaves the request counter at 0; the counter is
\* carried from one repository to the next.
C34_PepyThrottle ==
    /\ []Throttled
    /\ [][ThrottleStep]_vars

\* Eight requests were issued for eight repositories without a sleep, and the
\* function sleeps before the request of the ninth.
C34_Witness ==
    /\ p_event = "throttle"
    /\ p_i = PEPY_RATE_LIMIT_REQUESTS + 1
    /\ p_slept = PEPY_RATE_LIMIT_SLEEP_SECONDS
    /\ num_requests = 0

(***************************************************************************)
(* The frame of the enrichment steps                                       *)
(***************************************************************************)

\* The fields of a record a step may write.
StepFields(name) ==
    IF name = "add_issue_and_pr_data"
    THEN {"total_issues_count", "open_issues_count", "closed_issues_count",
          "total_pull_requests_count", "open_pull_requests_count",
          "closed_pull_requests_count", "merged_pull_requests_count"}
    ELSE IF name = "add_discussion_data" THEN {"discussions_count"}
    ELSE IF name = "add_downloads_pepy"
    THEN {"total_download_count", "monthly_download_count",
          "weekly_download_count", "daily_download_count"}
    ELSE IF name = "add_conda_data"
    THEN {"conda_total_downloads", "conda_monthly_downloads"}
    ELSE {}

\* The fields of the Report a step may write; those of the records are
\* looked at field by field.
ReportFields(name) ==
    IF name = "add_meta_to_result" THEN {"meta"}
    ELSE IF name = "add_organization_info_to_result" THEN {"org_info"}
    ELSE {}

EnrichmentSteps ==
    {"add_issue_and_pr_data", "add_discussion_data", "add_downloads_pepy",
     "add_conda_data", "add_meta_to_result", "add_organization_info_to_result"}

\* C35 Frame of the enrichment steps: a step that returned left the set of
\* records as it was, changed in the records no field other than its own
\* (seven issue and pull-request counts, discussions_count, four PyPI
\* download counts, two conda download fields; none for the meta and the
\* organization step), and changed of meta and org_info only the one it is
\* there to set.
C35_EnrichmentFrame ==
    \A name \in EnrichmentSteps :
        Returned(name) =>
            /\ DOMAIN After = DOMAIN Before
            /\ \A r \in DOMAIN Before :
                   \A f \in DOMAIN Before[r] \ StepFields(name) :
                       After[r][f] = Before[r][f]
            /\ \A f \in {"meta", "org_info"} \ ReportFields(name) :
                   call.outcome.result[f] = call.arg[f]

\* add_discussion_data changed the discussions_count of a record that
\* discovery had filled and that an earlier run of the step had written.
C35_Witness ==
    /\ Returned("add_discussion_data")
    /\ \E r \in DOMAIN Before :
           /\ After[r].discussions_count # Before[r].discussions_count
           /\ Before[r].repository_name = r
           /\ Before[r].repo_name_with_owner # ""

(***************************************************************************)
(* main: the organizations processed                                       *)
(***************************************************************************)

\* C36 A supplied organization is always processed: when both secrets are
\* present and an organization is supplied by ORGANIZATION_NAME, by the
\* configuration file or by both, a main that ends without a failing step
\* has run the pipeline at least once and has written a report.
C36_SuppliedOrganizationProcessed ==
    (main_pc = "end" /\ SecretsPresent /\ ~NoOrganizationSupplied) =>
        /\ returned # <<>>
        /\ files # EmptyDict

=============================================================================
